---- MODULE Spec2Model ----
(***************************************************************************)
(* A model of the ZilaZol retail price crawler.                            *)
(*                                                                         *)
(*   SpecRetailer   crawl_retailer: the source loop of one retailer, the   *)
(*                  four adapters, the dedup sets (crawler/core.py and     *)
(*                  crawler/adapters/*.py)                                 *)
(*   SpecCreds      crawl_retailer on sources of the authenticated and of  *)
(*                  the generic adapter, with every kind of credential key *)
(*   SpecRun        run_all: the workers and the semaphore                 *)
(*   SpecDedup      run_all: the dedup sets of concurrent workers          *)
(*   SpecAdmit      run_all with crawl_retailer as one step, under weak    *)
(*                  fairness of every task                                 *)
(*   SpecStore      upsert_retailer and upsert_store, called directly      *)
(*   SpecDb         save_parsed_prices on the rows of price and promotion  *)
(*                  files (ZilaZol/crawler/db.py)                          *)
(*   SpecParse      parse_prices_xml, the price decision of one Item       *)
(*   SpecArchive    iter_xml_entries (crawler/archive_utils.py)            *)
(*   SpecDiscover   the link collection of one adapter call with the       *)
(*                  today-filter, and fetch_url                            *)
(*   SpecMain       main of run_crawler.py: the exit code                  *)
(*   SpecOrder      crawl_retailer: the order in which the sources are     *)
(*                  tried                                                  *)
(*   SpecSelect     crawl_retailer: the adapter chosen for one source      *)
(*   SpecLogin      publishedprices_login: the attempts of one call;       *)
(*   SpecLoginLive  the same under weak fairness of its steps              *)
(*   SpecDates      the today-filter of publishedprices and of bina on     *)
(*                  one date text                                          *)
(*   SpecButtons    bina_collect_download_buttons on the onclick of one    *)
(*                  row, and the pseudo-links of bina_collect_links        *)
(*   SpecMeta       parse_prices_xml: the store metadata of one file       *)
(*   SpecSave       save_parsed_prices statement by statement, under       *)
(*                  parse_from_blob's handler                              *)
(*   SpecWolt       wolt_dateindex_adapter: the date it takes its files    *)
(*                  from                                                   *)
(*   SpecExit       limited_crawl and crawl_retailer: the order of the     *)
(*                  steps on the way out                                   *)
(*   SpecSync       sync_retailers_from_json followed by the files         *)
(*                  persisted in the same run                              *)
(*   SpecFlat       collect_links_on_page: the today-filter on one anchor, *)
(*                  character by character                                 *)
(*                                                                         *)
(* Every specification drives its own variables and leaves the others at   *)
(* their idle values.                                                      *)
(***************************************************************************)
EXTENDS Integers, Sequences, FiniteSets, TLC

VARIABLES
    \* ---- crawl_retailer (one retailer run) ----
    sources,        \* the retailer's sources, in the order the loop visits them
    srcIdx,         \* index of the source the loop is at (0 before the first)
    apc,            \* position inside crawl_retailer / the running adapter
    result,         \* the RetailerResult the running adapter is filling
    results,        \* the list crawl_retailer returns
    seen_hashes,    \* core.py:41, shared by the sources of the retailer
    seen_names,     \* core.py:42
    pp_seen_hashes, \* publishedprices.py:422, local to one adapter call
    pp_seen_names,  \* publishedprices.py:423
    left,           \* links (or buttons) of the running loop not yet handled
    click,          \* state of the click-download path of bina_adapter
    ev,             \* the download path and the outcome of the last link or button
    processed,      \* the files handed to parse_from_blob, in order
    invoked,        \* the source indices whose adapter was called, in order
    credentials,    \* core.py:109: what the last crawl_publishedprices got
    \* ---- run_all (the workers of one run) ----
    enabled,        \* retailer -> its "enabled" flag
    wpc,            \* retailer -> position of its limited_crawl task
    sem,            \* value of asyncio.Semaphore(3)
    browser_open,   \* retailers whose worker has a launched browser
    ctx_open,       \* retailers whose worker has an open browser context
    raised,         \* retailers whose task ended with an exception
    exit_path,      \* retailer -> the failure that makes its worker leave
                    \* with a close call of the finally block not made
    \* ---- the database and save_parsed_prices ----
    db_pool,        \* get_pool() returns a pool (DATABASE_URL is set)
    db_retailers,   \* table retailers: slug -> row
    db_stores,      \* table stores: <<retailerId, externalId>> -> row
    db_products,    \* table products: barcode -> row
    db_snapshots,   \* table price_snapshots: the references its rows hold
    spc,            \* position inside save_parsed_prices
    db_retailer_id, \* save_parsed_prices: the id upsert_retailer returned
    store_metadata, \* save_parsed_prices: its store_metadata argument
    store_cache,    \* save_parsed_prices: external store id -> store id
    todo,           \* save_parsed_prices: whether rows are left to handle
    budget,         \* rows the run may still persist
    call,           \* the upsert statement of the last step, if it made one
    \* ---- parse_prices_xml ----
    xml,            \* the document: its Item and other child elements
    ppc,            \* "none", "ready" (document given) or "done"
    parsed_rows,    \* the rows parse_prices_xml returned
    \* ---- iter_xml_entries ----
    data,           \* the downloaded blob
    filename_hint,  \* the file name it was downloaded under
    ipc,            \* "none", "ready" (blob given), "done" or "raised"
    entries,        \* the (inner name, bytes) pairs the generator yielded
    attempted,      \* the containers whose decompression was attempted, in order
    \* ---- link discovery of one adapter call, and fetch_url ----
    on_page,        \* the adapter that runs on the page
    page_rows,      \* the entries of the page, top to bottom
    filter_today,   \* the today-filter of the adapter call
    dpc,            \* position inside the adapter
    links,          \* the list the adapter's link collection returned
    link_idx,       \* links of that list the download loop has handled
    fetched,        \* page entries whose URL was requested
    clicked,        \* page entries whose Download button was clicked
    resp_status,    \* status of the response to the last request
    fetch_result,   \* what the last fetch_url call did
    error_links,    \* the links with an entry in result.errors
    downloaded_links,     \* the links counted in result.files_downloaded
    \* ---- main of run_crawler.py ----
    gathered,       \* what asyncio.gather returns: one entry per task
    out,            \* the list run_all returns
    mpc,            \* position inside main
    exit_code,      \* the status the process exits with
    finished,       \* the tasks that were through when main went on
    reported,       \* <<>>, or the counts main logs as crawler.complete
    \* ---- the dedup sets of concurrent crawl_retailer calls ----
    hash_sets,      \* the seen_hashes set objects, by the call that made them
    name_sets,      \* the seen_names set objects, by the call that made them
    cpc,            \* position of each retailer's worker
    fetches,        \* how many blobs each worker has fetched
    blobs_processed, \* the blobs each worker processed
    blobs_skipped,  \* the blobs each worker skipped as duplicates
    permits,         \* free permits of run_all's semaphore
    \* ---- crawl_retailer: the order of the sources ----
    retailer_sources,    \* the sources list of the retailer, as configured
    retailer_url,    \* the legacy url of the retailer is non-empty
    ordered,    \* the list the loop iterates
    opc,    \* position inside crawl_retailer
    oidx,    \* how many sources the loop has taken
    visited,    \* the configured positions of the sources an adapter was run for
    \* ---- crawl_retailer: the choice of the adapter ----
    source_adapter,    \* the adapter key of the source
    retailer_adapter,    \* the adapter key of the retailer
    source_host,    \* the host of the source, as its fragments
    adapter_type,    \* the adapter chosen for the source
    dispatched,    \* the adapter functions called for the source
    \* ---- publishedprices_login ----
    max_retries,    \* the max_retries argument
    attempt,    \* the loop variable of the attempts
    tries,    \* how many attempts were begun
    lpc,    \* position inside publishedprices_login
    waited,    \* the waits before a retry, in milliseconds
    password_filled,    \* a password field was found and filled
    login_result,    \* what the call returned
    login_raised,    \* the call ended with an exception
    \* ---- the today-filter of one table row ----
    date_str,    \* the slash date of the row: its three parts as written
    local_now,    \* the current local date: year, month, day
    row_adapter,    \* the adapter that reads the row
    row_kept,    \* whether the filter kept the row
    \* ---- bina: one table row with a button ----
    onclick,    \* the onclick attribute of the row button, as its tokens
    button_date,    \* the date of the row: today, other, or none
    bpc,    \* position: the two collections in turn
    buttons_found,    \* what bina_collect_download_buttons returned without the filter
    collected_links,    \* what bina_collect_links returned
    \* ---- parse_prices_xml: the store metadata ----
    file_store_id,    \* the store_id argument (from the filename), or Null
    root_texts,    \* field -> text of the root-level element, or NoElement
    store_elem,    \* <<>>, or <<field -> text of the child of <Store>>>
    item_kinds,    \* the Items of the document: under a Promotion or not
    xpc,    \* position inside parse_prices_xml
    metadata,    \* the store_metadata dict
    price_rows,    \* the rows list
    \* ---- save_parsed_prices: the statements of one file ----
    file_rows,    \* the rows argument: whether float(price) succeeds
    has_store,    \* the rows carry a store id
    row_at,    \* index of the row the loop is at
    fpc,    \* position inside the loop body
    store_cached,    \* store_cache holds the store id
    product_rows,    \* rows whose product was upserted
    snapshot_rows,    \* rows whose snapshot was inserted
    failed_rows,    \* rows on which a statement failed
    \* ---- wolt_dateindex_adapter: the choice of the date ----
    index_dates,    \* the dates the pattern finds in the index page
    date_pages,    \* date -> the page of the date: retrieved or not, its .gz links
    max_files,    \* source["max_files"]
    kpc,    \* position inside wolt_dateindex_adapter
    dates,    \* the discovered dates, newest first
    examined,    \* the dates whose page was requested, in order
    newest,    \* the selected date (0: none)
    date_links,    \* len(links)
    fetch_count,    \* calls of fetch_url
    files_downloaded,    \* result.files_downloaded
    wolt_reasons,    \* result.reasons
    \* ---- limited_crawl: the exit of one worker, event by event ----
    task,    \* worker -> its position, its context, whether it raised, its exit events
    exit_sem,    \* value of the semaphore
    \* ---- sync_retailers_from_json ----
    syncing,    \* run_crawler.py:41: the loop position, and whether the sync is over
    \* ---- collect_links_on_page of the generic adapter, character by character ----
    link_info,    \* generic.py:138-143: the anchor under the scan
    scan,    \* generic.py:100, 125: the flag, the clock, the position
    flat_hrefs    \* generic.py:124: hrefs

retVars == <<sources, srcIdx, apc, result, results, seen_hashes, seen_names,
             pp_seen_hashes, pp_seen_names, left, click, ev, processed, invoked, credentials>>

runVars == <<enabled, wpc, sem, browser_open, ctx_open, raised, exit_path>>

dbVars == <<db_pool, db_retailers, db_stores, db_products, db_snapshots, spc,
            db_retailer_id, store_metadata, store_cache, todo, budget, call>>

parseVars == <<xml, ppc, parsed_rows>>

archiveVars == <<data, filename_hint, ipc, entries, attempted>>

discoverVars == <<on_page, page_rows, filter_today, dpc, links, link_idx,
                  fetched, clicked, resp_status, fetch_result, error_links, downloaded_links>>

mainVars == <<gathered, out, mpc, exit_code, finished, reported>>

dedupVars == <<hash_sets, name_sets, cpc, fetches, blobs_processed, blobs_skipped, permits>>

orderVars == <<retailer_sources, retailer_url, ordered, opc, oidx, visited>>

selectVars == <<source_adapter, retailer_adapter, source_host, adapter_type, dispatched>>

loginVars == <<max_retries, attempt, tries, lpc, waited, password_filled, login_result, login_raised>>

datesVars == <<date_str, local_now, row_adapter, row_kept>>

buttonsVars == <<onclick, button_date, bpc, buttons_found, collected_links>>

metaVars == <<file_store_id, root_texts, store_elem, item_kinds, xpc, metadata, price_rows>>

saveVars == <<file_rows, has_store, row_at, fpc, store_cached, product_rows, snapshot_rows, failed_rows>>

woltVars == <<index_dates, date_pages, max_files, kpc, dates, examined, newest, date_links, fetch_count, files_downloaded, wolt_reasons>>

exitVars == <<task, exit_sem>>

syncVars == <<syncing>>

flatVars == <<link_info, scan, flat_hrefs>>

vars == <<retVars, runVars, dbVars, parseVars, archiveVars, discoverVars, mainVars, dedupVars, orderVars, selectVars, loginVars, datesVars, buttonsVars, metaVars, saveVars, woltVars, exitVars, syncVars, flatVars>>

(***************************************************************************)
(* Bounds of the model.                                                    *)
(***************************************************************************)
MaxSources == 2
MaxLinks == 2
MaxRetailers == 4
MaxRows == 2
MaxCalls == 3
MaxItems == 2
MaxMembers == 2

(***************************************************************************)
(* Blobs: a content hash and a file name.  md5_hex is modelled by the hash *)
(* drawn with the blob; str.lower() by Lower.                              *)
(***************************************************************************)
\* The blobs a portal serves: the same bytes under two spellings of a name,
\* other bytes under that name, and those bytes under another name.
Blobs == {<<"h1", "price.gz">>, <<"h1", "PRICE.gz">>,
          <<"h2", "PRICE.gz">>, <<"h2", "promo.gz">>}

Lower(n) ==
    IF n = "PRICE.gz" THEN "price.gz" ELSE IF n = "B.XML" THEN "b.xml"
    ELSE IF n \in {"RamiLevi", "RAMILEVI"} THEN "ramilevi" ELSE n

RetailerId == "shufersal"

NormalizedName(n) == <<RetailerId, Lower(n)>>

Adapters == {"publishedprices", "bina", "wolt_dateindex", "generic"}

\* SQL NULL and Python None.
Null == "<null>"

\* credentials.py:44: the store, in the order its keys are iterated.
CREDS == <<[key |-> "RamiLevi", credentials |-> "tenant1"],
           [key |-> "RAMILEVI", credentials |-> "tenant2"]>>

\* core.py:72: source.get("creds_key") or retailer.get("tenantKey"); Null
\* when neither is configured.
CredsKeys == {Null, "RAMILEVI", "ramilevi", "Osherad"}

\* A source: its URL is empty or not, the adapter chosen for it, and, for
\* the authenticated adapter, its credential key: a stored one or none.
SourceKinds ==
    [url : {TRUE}, adapter : Adapters \ {"publishedprices"}, creds : {"na"}]
    \cup [url : {TRUE}, adapter : {"publishedprices"}, creds : {"RAMILEVI", Null}]
    \cup [url : {FALSE}, adapter : {"generic"}, creds : {"na"}]

\* The sources of a retailer of the authenticated adapter, with every kind
\* of credential key, and of the generic adapter.
CredsSourceKinds ==
    [url : {TRUE}, adapter : {"generic"}, creds : {"na"}]
    \cup [url : {TRUE}, adapter : {"publishedprices"}, creds : CredsKeys]

SeqsUpTo(S, n) == UNION {[1..k -> S] : k \in 1..n}

NoEv == [path |-> "none", out |-> "none"]

NoClick == [mode |-> "off", tab |-> 0, total |-> 0, got |-> 0]

\* RetailerResult (crawler/models.py); errors is kept as a count, and
\* source_url as the index of the source the result was made for.
NewResult(adapter, src) ==
    [adapter |-> adapter, source |-> src, links_found |-> 0, files_downloaded |-> 0,
     skipped_dupes |-> 0, errors |-> 0, reasons |-> {}]

RetailerResult(adapter) == NewResult(adapter, srcIdx + 1)

NoResult == NewResult("none", 0)

\* A key the row dict does not have.
Absent == "<absent>"

\* "No id": the None an upsert returns, and a NULL store reference.
NoId == 0

\* Retailer slugs; run_all gives each retailer one task, which saves its
\* files one after the other.
Slugs == {"shufersal", "victory"}

Barcodes == {"7290000000001", "7290000000002"}

NoCall == [op |-> "none"]

EmptyTable == [k \in {} |-> Null]

\* No database in use.
DbIdle ==
    /\ db_pool = FALSE
    /\ db_retailers = EmptyTable
    /\ db_stores = EmptyTable
    /\ db_products = EmptyTable
    /\ db_snapshots = {}
    /\ spc = [w \in Slugs |-> "idle"]
    /\ db_retailer_id = [w \in Slugs |-> NoId]
    /\ store_metadata = [w \in Slugs |-> Null]
    /\ store_cache = [w \in Slugs |-> EmptyTable]
    /\ todo = [w \in Slugs |-> FALSE]
    /\ budget = 0
    /\ call = NoCall

\* No document is being parsed, no blob is being unpacked.
ParseIdle ==
    /\ xml = <<>>
    /\ ppc = "none"
    /\ parsed_rows = <<>>
    /\ data = Null
    /\ filename_hint = ""
    /\ ipc = "none"
    /\ entries = <<>>
    /\ attempted = <<>>

\* No adapter is collecting links.
DiscoverIdle ==
    /\ on_page = "none"
    /\ page_rows = <<>>
    /\ filter_today = FALSE
    /\ dpc = "idle"
    /\ links = <<>>
    /\ link_idx = 0
    /\ fetched = {}
    /\ clicked = {}
    /\ resp_status = 0
    /\ fetch_result = "none"
    /\ error_links = {}
    /\ downloaded_links = {}

\* main is not running.
MainIdle ==
    /\ gathered = <<>>
    /\ out = <<>>
    /\ mpc = "idle"
    /\ exit_code = Null
    /\ finished = {}
    /\ reported = <<>>

DedupIdle ==
    /\ hash_sets = <<>>
    /\ name_sets = <<>>
    /\ cpc = <<>>
    /\ fetches = <<>>
    /\ blobs_processed = <<>>
    /\ blobs_skipped = <<>>
    /\ permits = 0

OrderIdle ==
    /\ retailer_sources = <<>>
    /\ retailer_url = FALSE
    /\ ordered = <<>>
    /\ opc = "idle"
    /\ oidx = 0
    /\ visited = <<>>

SelectIdle ==
    /\ source_adapter = Null
    /\ retailer_adapter = Null
    /\ source_host = <<>>
    /\ adapter_type = Null
    /\ dispatched = <<>>

LoginIdle ==
    /\ max_retries = 0
    /\ attempt = 0
    /\ tries = 0
    /\ lpc = "idle"
    /\ waited = <<>>
    /\ password_filled = FALSE
    /\ login_result = "none"
    /\ login_raised = FALSE

DatesIdle ==
    /\ date_str = <<>>
    /\ local_now = <<>>
    /\ row_adapter = "none"
    /\ row_kept = "none"

ButtonsIdle ==
    /\ onclick = <<>>
    /\ button_date = "none"
    /\ bpc = "idle"
    /\ buttons_found = <<>>
    /\ collected_links = <<>>

MetaIdle ==
    /\ file_store_id = Null
    /\ root_texts = <<>>
    /\ store_elem = <<>>
    /\ item_kinds = <<>>
    /\ xpc = "idle"
    /\ metadata = <<>>
    /\ price_rows = <<>>

SaveIdle ==
    /\ file_rows = <<>>
    /\ has_store = FALSE
    /\ row_at = 0
    /\ fpc = "idle"
    /\ store_cached = FALSE
    /\ product_rows = {}
    /\ snapshot_rows = {}
    /\ failed_rows = {}

WoltIdle ==
    /\ index_dates = {}
    /\ date_pages = <<>>
    /\ max_files = 0
    /\ kpc = "idle"
    /\ dates = <<>>
    /\ examined = <<>>
    /\ newest = 0
    /\ date_links = 0
    /\ fetch_count = 0
    /\ files_downloaded = 0
    /\ wolt_reasons = {}

ExitIdle ==
    /\ task = <<>>
    /\ exit_sem = 0

SyncIdle ==
    /\ syncing = [i |-> 0, done |-> TRUE]

FlatIdle ==
    /\ link_info = [href |-> <<>>, text |-> <<>>]
    /\ scan = [today |-> <<>>, filter_today |-> FALSE, pc |-> "idle"]
    /\ flat_hrefs = {}

\* run_all before any task is created.
RunIdle ==
    /\ enabled = <<>>
    /\ wpc = <<>>
    /\ sem = 0
    /\ browser_open = {}
    /\ ctx_open = {}
    /\ raised = {}
    /\ exit_path = <<>>

RetStart(kinds) ==
    /\ RunIdle /\ DbIdle /\ ParseIdle /\ DiscoverIdle /\ MainIdle /\ DedupIdle /\ OrderIdle /\ SelectIdle /\ LoginIdle /\ DatesIdle /\ ButtonsIdle /\ MetaIdle /\ SaveIdle /\ WoltIdle /\ ExitIdle /\ SyncIdle /\ FlatIdle
    /\ sources \in SeqsUpTo(kinds, MaxSources)
    /\ srcIdx = 0
    /\ apc = "loop"
    /\ result = NoResult
    /\ results = <<>>
    /\ seen_hashes = {}
    /\ seen_names = {}
    /\ pp_seen_hashes = {}
    /\ pp_seen_names = {}
    /\ left = 0
    /\ click = NoClick
    /\ ev = NoEv
    /\ processed = <<>>
    /\ invoked = <<>>
    /\ credentials = Null

RetInit == RetStart(SourceKinds)

CredsInit == RetStart(CredsSourceKinds)

(***************************************************************************)
(* The dedup test every download path runs on a blob (generic.py:229-242,  *)
(* bina.py:399-412 and 656-669, wolt_dateindex.py:140-153,                 *)
(* publishedprices.py:435-448): the hash first, then the normalized name.  *)
(***************************************************************************)
DedupNoNameCheck(h, n, hs, ns) ==
    IF h \in hs THEN "dup_hash" ELSE "new"

Dedup(h, n, hs, ns) ==
    IF h \in hs THEN "dup_hash"
    ELSE IF NormalizedName(n) \in ns THEN "dup_name"
    ELSE "new"

\* The sets the running adapter tests and fills: crawl_publishedprices is
\* not handed the retailer's sets and allocates its own.
UsesLocalSets == result.adapter = "publishedprices"
CurHashes == IF UsesLocalSets THEN pp_seen_hashes ELSE seen_hashes
CurNames == IF UsesLocalSets THEN pp_seen_names ELSE seen_names

AddSeen(h, n) ==
    IF UsesLocalSets
    THEN /\ pp_seen_hashes' = pp_seen_hashes \cup {h}
         /\ pp_seen_names' = pp_seen_names \cup {NormalizedName(n)}
         /\ UNCHANGED <<seen_hashes, seen_names>>
    ELSE /\ seen_hashes' = seen_hashes \cup {h}
         /\ seen_names' = seen_names \cup {NormalizedName(n)}
         /\ UNCHANGED <<pp_seen_hashes, pp_seen_names>>

KeepSeen == UNCHANGED <<seen_hashes, seen_names, pp_seen_hashes, pp_seen_names>>

Bump(r, f) == [r EXCEPT ![f] = @ + 1]
Reason(r, x) == [r EXCEPT !.reasons = @ \cup {x}]

File(h, n) == [hash |-> h, name |-> n, src |-> srcIdx]

(***************************************************************************)
(* crawl_retailer, the head of the source loop (core.py:51-116): skip a    *)
(* source without URL, resolve the credentials of the authenticated        *)
(* adapter, call the adapter.  The adapter runs up to its link loop.       *)
(***************************************************************************)
\* core.py:85, 108-109: membership in the store and the lookup of a key.
InCreds(key) == \E i \in 1..Len(CREDS) : CREDS[i].key = key

CredentialsOf(key) ==
    CREDS[CHOOSE i \in 1..Len(CREDS) : CREDS[i].key = key].credentials

\* core.py:87-92: the first stored key that equals the key once both are
\* lowercased, None when there is none.
NoCaseMatch(key) == Null

matched_key(key) ==
    LET hits == SelectSeq(CREDS, LAMBDA c : Lower(c.key) = Lower(key))
    IN  IF hits = <<>> THEN Null ELSE hits[1].key

\* core.py:72-108: the key the store is read with, Null when the source gets
\* the credentials_missing result.
creds_key(s) ==
    IF s.creds = Null THEN Null
    ELSE IF InCreds(s.creds) THEN s.creds
    ELSE matched_key(s.creds)

SkipEmptyUrl ==
    /\ apc = "loop" /\ srcIdx < Len(sources)
    /\ ~sources[srcIdx + 1].url
    /\ srcIdx' = srcIdx + 1
    /\ UNCHANGED <<sources, apc, result, results, seen_hashes, seen_names,
                   pp_seen_hashes, pp_seen_names, left, click, ev, processed, invoked, credentials>>

\* core.py:73-82 and 96-105: no adapter call, a failed result is appended
\* (core.py:118) and the loop goes on (core.py:126-130).
CredentialsMissing ==
    /\ apc = "loop" /\ srcIdx < Len(sources)
    /\ LET s == sources[srcIdx + 1] IN
         /\ s.url /\ s.adapter = "publishedprices" /\ creds_key(s) = Null
         /\ srcIdx' = srcIdx + 1
         /\ results' = Append(results,
                Reason(Bump(RetailerResult("publishedprices"), "errors"),
                       "credentials_missing"))
    /\ UNCHANGED <<sources, apc, result, seen_hashes, seen_names,
                   pp_seen_hashes, pp_seen_names, left, click, ev, processed, invoked, credentials>>

Invoke(a) ==
    /\ apc = "loop" /\ srcIdx < Len(sources)
    /\ LET s == sources[srcIdx + 1] IN
         /\ s.url /\ s.adapter = a
         /\ a = "publishedprices" => creds_key(s) # Null
         /\ credentials' = IF a = "publishedprices"
                            THEN CredentialsOf(creds_key(s)) ELSE credentials
    /\ srcIdx' = srcIdx + 1
    /\ invoked' = Append(invoked, srcIdx + 1)
    /\ ev' = NoEv
    /\ UNCHANGED <<sources, results, seen_hashes, seen_names, processed>>

\* An exception outside the link loop: the adapter's outer handler records
\* fatal:<e> and returns the result (generic.py:261-264 and the like).
Fatal(a) ==
    /\ result' = Bump(RetailerResult(a), "errors")
    /\ apc' = "ret" /\ left' = 0 /\ click' = NoClick
    /\ UNCHANGED <<pp_seen_hashes, pp_seen_names>>

\* generic_adapter up to its link loop (generic.py:177-219).
GenericStart ==
    /\ Invoke("generic")
    /\ \/ Fatal("generic")
       \/ \E n \in 0..MaxLinks :
            /\ result' = LET r == [RetailerResult("generic") EXCEPT !.links_found = n]
                         IN IF n = 0 THEN Reason(r, "no_dom_links") ELSE r
            /\ apc' = "links" /\ left' = n /\ click' = NoClick
            /\ UNCHANGED <<pp_seen_hashes, pp_seen_names>>

\* wolt_dateindex_adapter up to its link loop (wolt_dateindex.py:85-131).
WoltStart ==
    /\ Invoke("wolt_dateindex")
    /\ \/ Fatal("wolt_dateindex")
       \/ \E why \in {"no_dates", "no_files"} :
            /\ result' = Reason(RetailerResult("wolt_dateindex"), why)
            /\ apc' = "ret" /\ left' = 0 /\ click' = NoClick
            /\ UNCHANGED <<pp_seen_hashes, pp_seen_names>>
       \/ \E n \in 1..MaxLinks :
            /\ result' = [RetailerResult("wolt_dateindex") EXCEPT !.links_found = n]
            /\ apc' = "links" /\ left' = n /\ click' = NoClick
            /\ UNCHANGED <<pp_seen_hashes, pp_seen_names>>

\* No return after a failed login.
GoesOnAfterLogin(login_ok) == FALSE

\* publishedprices.py:398-401: the adapter returns when the login failed.
ReturnsAfterLogin(login_ok) == ~login_ok

\* crawl_publishedprices up to its link loop (publishedprices.py:386-425):
\* the login, the folder of the retailer, the collection of the links.
PublishedStart ==
    /\ Invoke("publishedprices")
    /\ \/ Fatal("publishedprices")
       \/ \E login_ok \in BOOLEAN, n \in 0..MaxLinks, folder_ok \in BOOLEAN :
            LET new == RetailerResult("publishedprices")
                logged == IF login_ok THEN new
                          ELSE Reason(Bump(new, "errors"), "login_failed")
                r0 == [logged EXCEPT !.links_found = n]
                r1 == IF folder_ok THEN r0
                      ELSE Bump(Reason(r0, "folder_navigation_failed"), "errors")
            IN  IF ReturnsAfterLogin(login_ok)
                THEN /\ result' = logged
                     /\ apc' = "ret" /\ left' = 0 /\ click' = NoClick
                     /\ UNCHANGED <<pp_seen_hashes, pp_seen_names>>
                ELSE /\ result' = IF n = 0 THEN Reason(r1, "no_dom_links") ELSE r1
                     /\ apc' = "links" /\ left' = n /\ click' = NoClick
                     /\ pp_seen_hashes' = {} /\ pp_seen_names' = {}

\* bina_adapter up to its first loop (bina.py:567-637): pseudo-links lead to
\* the click path, no link at all to the tab fallback, real links to the
\* fetch loop.  bina_collect_links returns pseudo-links or real links,
\* never both (bina.py:248-308).
BinaStart ==
    /\ Invoke("bina")
    /\ UNCHANGED <<pp_seen_hashes, pp_seen_names>>
    /\ \/ Fatal("bina") 
       \/ \E n \in 1..MaxLinks, b \in 0..MaxLinks :
            /\ result' = Reason([RetailerResult("bina") EXCEPT !.links_found = n],
                                "found_download_buttons")
            /\ apc' = "click" /\ left' = b
            /\ click' = [mode |-> "pseudo", tab |-> 0, total |-> 0, got |-> 0]
       \/ \E b \in 0..MaxLinks :
            /\ result' = Reason(RetailerResult("bina"), "no_dom_links")
            /\ apc' = "click" /\ left' = b
            /\ click' = [mode |-> "tabs", tab |-> 1, total |-> 0, got |-> 0]
       \/ \E n \in 1..MaxLinks :
            /\ result' = [RetailerResult("bina") EXCEPT !.links_found = n]
            /\ apc' = "links" /\ left' = n /\ click' = NoClick

(***************************************************************************)
(* One link of a fetch loop: fetch_url, sniff, hash, dedup, parse, count   *)
(* (generic.py:220-257, bina.py:649-684, wolt_dateindex.py:132-168,        *)
(* publishedprices.py:427-479).  fetch_url returns None for a link it      *)
(* could not get (download.py:41-46 and 57-60); only generic_adapter tests *)
(* for it (generic.py:224), the others raise in sniff_kind(None) and       *)
(* record a download_error.  The upload of the raw blob to object storage  *)
(* (publishedprices.py:451-464) is an external collaborator and is left    *)
(* out: no bucket is configured (gcs.py:14-15).                            *)
(***************************************************************************)
FetchNone ==
    /\ apc = "links" /\ left > 0
    /\ left' = left - 1
    /\ ev' = [NoEv EXCEPT !.path = "fetch", !.out = "none"]
    /\ result' = IF result.adapter = "generic" THEN result ELSE Bump(result, "errors")
    /\ KeepSeen
    /\ UNCHANGED <<sources, srcIdx, apc, results, click, processed, invoked, credentials>>

FetchBlob ==
    /\ apc = "links" /\ left > 0
    /\ \E b \in Blobs :
         LET h == b[1]
             n == b[2]
             d == Dedup(h, n, CurHashes, CurNames) IN
         /\ left' = left - 1
         /\ ev' = [path |-> "fetch", out |-> d]
         /\ IF d # "new"
            THEN /\ result' = Bump(result, "skipped_dupes")
                 /\ KeepSeen
                 /\ UNCHANGED processed
            ELSE /\ AddSeen(h, n)
                 /\ processed' = Append(processed, File(h, n))
                 /\ result' = Bump(result, "files_downloaded")
    /\ UNCHANGED <<sources, srcIdx, apc, results, click, invoked, credentials>>

(***************************************************************************)
(* bina_fallback_click_downloads (bina.py:329-562): one button of one of   *)
(* its three click loops (bina.py:382-433, 459-496, 524-559).  A failed    *)
(* click or download is logged only; a duplicate is skipped with a debug   *)
(* line and `continue`; a new blob is parsed and counted in total.         *)
(***************************************************************************)
ClickFailed ==
    /\ apc = "click" /\ left > 0
    /\ left' = left - 1
    /\ ev' = [NoEv EXCEPT !.path = "click", !.out = "failed"]
    /\ KeepSeen
    /\ UNCHANGED <<sources, srcIdx, apc, result, results, click, processed, invoked, credentials>>

ClickBlob ==
    /\ apc = "click" /\ left > 0
    /\ \E b \in Blobs :
         LET h == b[1]
             n == b[2]
             d == Dedup(h, n, seen_hashes, seen_names) IN
         /\ left' = left - 1
         /\ ev' = [path |-> "click", out |-> d]
         /\ IF d # "new"
            THEN /\ KeepSeen
                 /\ UNCHANGED <<processed, click>>
            ELSE /\ AddSeen(h, n)
                 /\ processed' = Append(processed, File(h, n))
                 /\ click' = [click EXCEPT !.total = @ + 1]
    /\ UNCHANGED <<sources, srcIdx, apc, result, results, invoked, credentials>>

\* bina_fallback_click_downloads returns total to bina_adapter.  On the
\* pseudo-link path (bina.py:613-620) the downloads are added to the result.
\* On the tab fallback (bina.py:631-645) the next tab is tried while a tab
\* yields nothing.  Then the (empty) loop over real links runs.
UsedClick(r, got) == IF got > 0 THEN Reason(r, "used_click_fallback") ELSE r

ClickReturnPseudo ==
    /\ apc = "click" /\ left = 0 /\ click.mode = "pseudo"
    /\ result' = [UsedClick(result, click.total)
                    EXCEPT !.files_downloaded = @ + click.total]
    /\ apc' = "links" /\ left' = 0 /\ click' = NoClick
    /\ ev' = NoEv
    /\ KeepSeen
    /\ UNCHANGED <<sources, srcIdx, results, processed, invoked, credentials>>

ClickReturnTabNext ==
    /\ apc = "click" /\ left = 0 /\ click.mode = "tabs"
    /\ click.total = 0 /\ click.tab < 3
    /\ \E b \in 0..MaxLinks :
         /\ left' = b
         /\ click' = [click EXCEPT !.tab = @ + 1, !.total = 0]
    /\ KeepSeen
    /\ UNCHANGED <<sources, srcIdx, apc, result, results, ev, processed, invoked, credentials>>

\* bina_open_tab or the button scan of the next call raises: bina_adapter's
\* outer handler records fatal:<e> and returns (bina.py:688-691).
ClickReturnTabFatal ==
    /\ apc = "click" /\ left = 0 /\ click.mode = "tabs"
    /\ click.total = 0 /\ click.tab < 3
    /\ result' = Bump(result, "errors")
    /\ apc' = "ret" /\ click' = NoClick
    /\ KeepSeen
    /\ UNCHANGED <<sources, srcIdx, results, left, ev, processed, invoked, credentials>>

ClickReturnTabsEnd ==
    /\ apc = "click" /\ left = 0 /\ click.mode = "tabs"
    /\ click.total > 0 \/ click.tab = 3
    /\ LET got == click.got + click.total IN
         result' = [UsedClick(result, got)
                      EXCEPT !.files_downloaded = @ + got, !.links_found = got]
    /\ apc' = "links" /\ left' = 0 /\ click' = NoClick
    /\ ev' = NoEv
    /\ KeepSeen
    /\ UNCHANGED <<sources, srcIdx, results, processed, invoked, credentials>>

(***************************************************************************)
(* The adapter has returned: crawl_retailer appends its result and stops   *)
(* at the first source that downloaded a file (core.py:118-130).                 *)
(***************************************************************************)
ShortCircuitAfterTwo(r) == r.files_downloaded > 1

ShortCircuit(r) == r.files_downloaded > 0

SourceDone ==
    /\ apc = "ret" \/ (apc = "links" /\ left = 0)
    /\ results' = Append(results, result)
    /\ apc' = IF ShortCircuit(result) THEN "finally" ELSE "loop"
    /\ result' = NoResult
    /\ ev' = NoEv
    /\ KeepSeen
    /\ UNCHANGED <<sources, srcIdx, left, click, processed, invoked, credentials>>

\* The loop has run out of sources.
SourcesExhausted ==
    /\ apc = "loop" /\ srcIdx = Len(sources)
    /\ apc' = "finally"
    /\ KeepSeen
    /\ UNCHANGED <<sources, srcIdx, result, results, left, click, ev, processed, invoked, credentials>>

\* core.py:132-139: context and browser are closed, results are returned.
ReturnResults ==
    /\ apc = "finally"
    /\ apc' = "returned"
    /\ KeepSeen
    /\ UNCHANGED <<sources, srcIdx, result, results, left, click, ev, processed, invoked, credentials>>

\* crawl_retailer of one retailer leaves the state of the other parts alone.
RetFrame == UNCHANGED <<runVars, dbVars, parseVars, archiveVars, discoverVars, mainVars, dedupVars, orderVars, selectVars, loginVars, datesVars, buttonsVars, metaVars, saveVars, woltVars, exitVars, syncVars, flatVars>>

RetNext ==
    \/ SkipEmptyUrl /\ RetFrame
    \/ CredentialsMissing /\ RetFrame
    \/ GenericStart /\ RetFrame
    \/ WoltStart /\ RetFrame
    \/ PublishedStart /\ RetFrame
    \/ BinaStart /\ RetFrame
    \/ FetchNone /\ RetFrame
    \/ FetchBlob /\ RetFrame
    \/ ClickFailed /\ RetFrame
    \/ ClickBlob /\ RetFrame
    \/ ClickReturnPseudo /\ RetFrame
    \/ ClickReturnTabNext /\ RetFrame
    \/ ClickReturnTabFatal /\ RetFrame
    \/ ClickReturnTabsEnd /\ RetFrame
    \/ SourceDone /\ RetFrame
    \/ SourcesExhausted /\ RetFrame
    \/ ReturnResults /\ RetFrame

SpecRetailer == RetInit /\ [][RetNext]_vars

\* crawl_retailer on the sources of CredsSourceKinds: the steps of the
\* authenticated and of the generic adapter.
CredsNext ==
    \/ CredentialsMissing /\ RetFrame
    \/ GenericStart /\ RetFrame
    \/ PublishedStart /\ RetFrame
    \/ FetchNone /\ RetFrame
    \/ FetchBlob /\ RetFrame
    \/ SourceDone /\ RetFrame
    \/ SourcesExhausted /\ RetFrame
    \/ ReturnResults /\ RetFrame

SpecCreds == CredsInit /\ [][CredsNext]_vars

(***************************************************************************)
(* Claims about crawl_retailer, checked under SpecRetailer.                *)
(***************************************************************************)

\* C2: once a source's result has files_downloaded >= 1, no later source of
\* the retailer is invoked: the result is the last of the list, the loop
\* stands at that source and has left the source loop, and no adapter call
\* was made for a source after it.  So at most one result has downloads, and
\* it is the last one.
C2_ShortCircuit ==
    \A i \in 1..Len(results) :
        results[i].files_downloaded >= 1 =>
            /\ i = Len(results)
            /\ srcIdx = results[i].source
            /\ apc \in {"finally", "returned"}
            /\ \A k \in 1..Len(invoked) : invoked[k] <= results[i].source

\* C2 witness: the first source downloaded a file, a second source with a URL
\* was configured, and crawl_retailer has returned.
C2_Witness ==
    /\ apc = "returned"
    /\ Len(sources) >= 2 /\ sources[2].url
    /\ Len(results) = 1 /\ results[1].files_downloaded >= 1
    /\ invoked = <<1>>

\* C3: no two processed files of a retailer run share a content hash, and no
\* two share the key retailer/lowercased-filename.
C3_UniqueKeys ==
    \A i, j \in 1..Len(processed) :
        i # j => /\ processed[i].hash # processed[j].hash
                 /\ NormalizedName(processed[i].name) # NormalizedName(processed[j].name)

\* C3 witness: one file was processed and a second blob with a new hash was
\* turned away because its lowercased name was already taken.
C3_Witness ==
    /\ Len(processed) = 1
    /\ ev.out = "dup_name"

\* C4 (as claimed): in every download path, plain fetch and click-download,
\* obtaining a blob whose hash is already in the dedup set adds exactly 1 to
\* the result's skipped_dupes and the blob is not processed again.
C4_DupHashCounted ==
    [][(left' = left - 1 /\ ev'.out = "dup_hash") =>
          /\ result'.skipped_dupes = result.skipped_dupes + 1
          /\ processed' = processed]_vars

\* The stored entries whose key is the given key, and those whose key
\* equals it when case is ignored.
ExactEntries(key) == {i \in 1..Len(CREDS) : CREDS[i].key = key}

NoCaseEntries(key) == {i \in 1..Len(CREDS) : Lower(CREDS[i].key) = Lower(key)}

WasInvoked(j) == \E k \in 1..Len(invoked) : invoked[k] = j

\* C19: a source of the authenticated adapter whose key is in the store is
\* crawled with that key's credentials; else one whose key matches a stored
\* key when case is ignored is crawled with that stored key's credentials;
\* else, and with no key at all, the adapter is not called, a result with
\* reason credentials_missing and no links and no downloads is appended,
\* and the loop goes on to the next source.
C19_Credentials ==
    \A j \in 1..srcIdx :
       (sources[j].url /\ sources[j].adapter = "publishedprices") =>
          LET key == sources[j].creds
              last == invoked # <<>> /\ invoked[Len(invoked)] = j
          IN  IF key # Null /\ ExactEntries(key) # {}
              THEN /\ WasInvoked(j)
                   /\ last => \E i \in ExactEntries(key) :
                                 credentials = CREDS[i].credentials
              ELSE IF key # Null /\ NoCaseEntries(key) # {}
              THEN /\ WasInvoked(j)
                   /\ last => \E i \in NoCaseEntries(key) :
                                 credentials = CREDS[i].credentials
              ELSE /\ ~WasInvoked(j)
                   /\ \E i \in 1..Len(results) :
                         /\ results[i].source = j
                         /\ "credentials_missing" \in results[i].reasons
                         /\ results[i].links_found = 0
                         /\ results[i].files_downloaded = 0
                   /\ (apc \in {"finally", "returned"} /\ srcIdx = j)
                         => j = Len(sources)

\* C19 witness: the first source had a key that matches no stored key and
\* got the credentials_missing result; the loop went on to the second,
\* whose key matched a stored key only when case is ignored, and the
\* adapter ran with that stored key's credentials.
C19_Witness ==
    /\ Len(sources) = 2
    /\ sources[1].creds = "Osherad" /\ sources[2].creds = "ramilevi"
    /\ invoked = <<2>>
    /\ credentials = "tenant1"
    /\ Len(results) = 2
    /\ "credentials_missing" \in results[1].reasons
    /\ apc = "returned"

LoginFailed(r) == "login_failed" \in r.reasons

FolderFailed(r) == "folder_navigation_failed" \in r.reasons

\* C25: a result with login_failed has no links and no downloads, no file of
\* its source was processed, the adapter is at its return, and the loop does
\* not end at that source unless it is the last; a result with only the
\* folder failure has the failure among its errors and went through link
\* collection (it has links, or the no_dom_links reason).
C25_LoginFatalToSource ==
    /\ LoginFailed(result) =>
          /\ result.links_found = 0 /\ result.files_downloaded = 0
          /\ apc = "ret" /\ left = 0
    /\ (FolderFailed(result) /\ ~LoginFailed(result)) =>
          /\ result.errors >= 1
          /\ apc = "links"
          /\ result.links_found > 0 \/ "no_dom_links" \in result.reasons
    /\ \A i \in 1..Len(results) :
          /\ LoginFailed(results[i]) =>
                /\ results[i].links_found = 0 /\ results[i].files_downloaded = 0
                /\ \A k \in 1..Len(processed) : processed[k].src # results[i].source
                /\ (apc \in {"finally", "returned"} /\ srcIdx = results[i].source)
                      => srcIdx = Len(sources)
          /\ (FolderFailed(results[i]) /\ ~LoginFailed(results[i])) =>
                /\ results[i].errors >= 1
                /\ results[i].links_found > 0 \/ "no_dom_links" \in results[i].reasons

\* C25 witness: the login failed at the first source and the loop went on;
\* at the second the folder was not found and a file was downloaded all the
\* same.
C25_Witness ==
    /\ Len(results) = 2
    /\ LoginFailed(results[1]) /\ results[1].source = 1
    /\ FolderFailed(results[2]) /\ results[2].source = 2
    /\ results[2].files_downloaded > 0
    /\ apc = "returned"

(***************************************************************************)
(* run_all (core.py:142-178): one limited_crawl task per enabled retailer, *)
(* admitted by asyncio.Semaphore(3).  A task steps at the awaits of        *)
(* crawl_retailer: browser launch, context, page, the source loop, the     *)
(* closes of the finally block.  Leaving `async with async_playwright()`   *)
(* stops the driver, which ends whatever browser the worker still has.     *)
(***************************************************************************)
Retailers == 1..MaxRetailers

SemCapacity == 3

RetIdle ==
    /\ sources = <<>>
    /\ srcIdx = 0
    /\ apc = "idle"
    /\ result = NoResult
    /\ results = <<>>
    /\ seen_hashes = {}
    /\ seen_names = {}
    /\ pp_seen_hashes = {}
    /\ pp_seen_names = {}
    /\ left = 0
    /\ click = NoClick
    /\ ev = NoEv
    /\ processed = <<>>
    /\ invoked = <<>>
    /\ credentials = Null

\* core.py:173-176: a task is created for every retailer that is enabled.
RunInit ==
    /\ RetIdle /\ DbIdle /\ ParseIdle /\ DiscoverIdle /\ MainIdle /\ DedupIdle /\ OrderIdle /\ SelectIdle /\ LoginIdle /\ DatesIdle /\ ButtonsIdle /\ MetaIdle /\ SaveIdle /\ WoltIdle /\ ExitIdle /\ SyncIdle /\ FlatIdle
    /\ enabled \in [Retailers -> BOOLEAN]
    /\ wpc = [r \in Retailers |-> IF enabled[r] THEN "waiting" ELSE "disabled"]
    /\ sem = SemCapacity
    /\ browser_open = {}
    /\ ctx_open = {}
    /\ raised = {}
    /\ exit_path = [r \in Retailers |-> "none"]

RunFrame == UNCHANGED <<retVars, dbVars, parseVars, archiveVars, discoverVars, mainVars, dedupVars, orderVars, selectVars, loginVars, datesVars, buttonsVars, metaVars, saveVars, woltVars, exitVars, syncVars, flatVars>>

Goto(r, pc) == wpc' = [wpc EXCEPT ![r] = pc]

\* The worker leaves crawl_retailer past a close call of core.py:133-134.
Leave(r, path) == exit_path' = [exit_path EXCEPT ![r] = path]

\* Positions between the entry and the exit of crawl_retailer.
InsideCrawl == {"enter", "launched", "context", "sources", "close_ctx",
                "close_browser", "stop_ok", "stop_raise"}

\* asyncio.Semaphore.acquire: taken only while the value is positive.
CanAcquireAlways == TRUE

CanAcquire == sem > 0

\* core.py:162-166: `async with sem`, then crawl_retailer is called.
Acquire(r) ==
    /\ wpc[r] = "waiting" /\ CanAcquire
    /\ sem' = sem - 1
    /\ Goto(r, "enter")
    /\ UNCHANGED <<enabled, browser_open, ctx_open, raised, exit_path>>

\* core.py:26-35: a retailer without sources and without url returns [].
NoSources(r) ==
    /\ wpc[r] = "enter"
    /\ Goto(r, "release")
    /\ UNCHANGED <<enabled, sem, browser_open, ctx_open, raised, exit_path>>

\* playwright_helpers.py:14-16, called at core.py:47.
LaunchBrowser(r) ==
    /\ wpc[r] = "enter"
    /\ \/ /\ browser_open' = browser_open \cup {r}
          /\ Goto(r, "launched")
       \/ /\ Goto(r, "stop_raise")
          /\ UNCHANGED browser_open
    /\ UNCHANGED <<enabled, sem, ctx_open, raised, exit_path>>

\* playwright_helpers.py:17.
NewContext(r) ==
    /\ wpc[r] = "launched"
    /\ \/ /\ ctx_open' = ctx_open \cup {r}
          /\ Goto(r, "context")
       \/ /\ Goto(r, "stop_raise")
          /\ UNCHANGED ctx_open
    /\ UNCHANGED <<enabled, sem, browser_open, raised, exit_path>>

\* core.py:48, before the try block: a failure skips the finally block.
NewPage(r) ==
    /\ wpc[r] = "context"
    /\ \/ Goto(r, "sources") /\ UNCHANGED exit_path
       \/ Goto(r, "stop_raise") /\ Leave(r, "new_page")
    /\ UNCHANGED <<enabled, sem, browser_open, ctx_open, raised>>

\* core.py:50-130: the source loop; it ends normally or with an exception,
\* and the finally block runs in both cases.
RunSources(r) ==
    /\ wpc[r] = "sources"
    /\ \E exc \in BOOLEAN :
         /\ Goto(r, "close_ctx")
         /\ raised' = IF exc THEN raised \cup {r} ELSE raised
    /\ UNCHANGED <<enabled, sem, browser_open, ctx_open, exit_path>>

\* core.py:133.
CloseContext(r) ==
    /\ wpc[r] = "close_ctx"
    /\ \/ /\ ctx_open' = ctx_open \ {r}
          /\ Goto(r, "close_browser")
          /\ UNCHANGED exit_path
       \/ /\ Goto(r, "stop_raise")
          /\ Leave(r, "ctx_close")
          /\ UNCHANGED ctx_open
    /\ UNCHANGED <<enabled, sem, browser_open, raised>>

\* core.py:134-137: browser.close(), then del and gc.collect().
CloseBrowser(r) ==
    /\ wpc[r] = "close_browser"
    /\ \/ /\ browser_open' = browser_open \ {r}
          /\ Goto(r, IF r \in raised THEN "stop_raise" ELSE "stop_ok")
       \/ /\ Goto(r, "stop_raise")
          /\ UNCHANGED browser_open
    /\ UNCHANGED <<enabled, sem, ctx_open, raised, exit_path>>

\* The workers whose browser and context end when the driver that worker r
\* started is stopped: the driver closes what was launched through it.
NotEndedByStop(r) == {}

EndedByStop(r) == {r}

\* core.py:46: the exit of `async with async_playwright()`; crawl_retailer
\* then returns its results or passes the exception on.
StopPlaywright(r) ==
    /\ wpc[r] \in {"stop_ok", "stop_raise"}
    /\ browser_open' = browser_open \ EndedByStop(r)
    /\ ctx_open' = ctx_open \ EndedByStop(r)
    /\ raised' = IF wpc[r] = "stop_raise" THEN raised \cup {r} ELSE raised
    /\ Goto(r, "release")
    /\ UNCHANGED <<enabled, sem, exit_path>>

\* core.py:162: `async with sem` returns the permit when its body is left,
\* by a return or by an exception.
ReturnsPermitUnlessRaised(r) == r \notin raised

ReturnsPermit(r) == TRUE

\* core.py:168-171 and the exit of `async with sem`: gc.collect(), then the
\* permit is returned.
Release(r) ==
    /\ wpc[r] = "release"
    /\ sem' = IF ReturnsPermit(r) THEN sem + 1 ELSE sem
    /\ Goto(r, "done")
    /\ Leave(r, "none")
    /\ UNCHANGED <<enabled, browser_open, ctx_open, raised>>

RunNext ==
    \/ \E r \in Retailers : Acquire(r) /\ RunFrame
    \/ \E r \in Retailers : NoSources(r) /\ RunFrame
    \/ \E r \in Retailers : LaunchBrowser(r) /\ RunFrame
    \/ \E r \in Retailers : NewContext(r) /\ RunFrame
    \/ \E r \in Retailers : NewPage(r) /\ RunFrame
    \/ \E r \in Retailers : RunSources(r) /\ RunFrame
    \/ \E r \in Retailers : CloseContext(r) /\ RunFrame
    \/ \E r \in Retailers : CloseBrowser(r) /\ RunFrame
    \/ \E r \in Retailers : StopPlaywright(r) /\ RunFrame
    \/ \E r \in Retailers : Release(r) /\ RunFrame

SpecRun == RunInit /\ [][RunNext]_vars

(***************************************************************************)
(* run_all with crawl_retailer as one step: a call that terminates either  *)
(* returns its results or raises, and by then what it opened has ended.    *)
(***************************************************************************)
\* core.py:166: the call of crawl_retailer, from its entry to its exit.
CrawlRetailer(r) ==
    /\ wpc[r] = "enter"
    /\ \E exc \in BOOLEAN :
          raised' = IF exc THEN raised \cup {r} ELSE raised
    /\ Goto(r, "release")
    /\ UNCHANGED <<enabled, sem, browser_open, ctx_open, exit_path>>

\* The steps of the task of retailer r.
limited_crawl(r) == Acquire(r) \/ CrawlRetailer(r) \/ Release(r)

AdmitNext ==
    \/ \E r \in Retailers : Acquire(r) /\ RunFrame
    \/ \E r \in Retailers : CrawlRetailer(r) /\ RunFrame
    \/ \E r \in Retailers : Release(r) /\ RunFrame

\* The event loop runs every task that can go on, and every call of
\* crawl_retailer terminates.
SpecAdmit ==
    /\ RunInit /\ [][AdmitNext]_vars
    /\ \A r \in Retailers : WF_vars(limited_crawl(r) /\ RunFrame)

\* C1: under every interleaving of the workers, at most 3 workers are inside
\* crawl_retailer, and at most 3 browser contexts are open.
C1_AtMostThree ==
    /\ Cardinality({r \in Retailers : wpc[r] \in InsideCrawl}) <= 3
    /\ Cardinality(ctx_open) <= 3

\* C1 witness: three workers hold an open context while another enabled
\* retailer waits for a permit.
C1_Witness ==
    /\ Cardinality(ctx_open) = 3
    /\ \E r \in Retailers : wpc[r] = "waiting"
    /\ sem = 0


\* C18: every enabled retailer is admitted in the end and its worker
\* finishes, whichever workers raise.
C18_AllFinish == <>(\A r \in Retailers : enabled[r] => wpc[r] = "done")

\* C18 witness: four enabled retailers are through, three of them by an
\* exception, and every permit is back.
C18_Witness ==
    /\ Cardinality({r \in Retailers : enabled[r]}) >= SemCapacity + 1
    /\ \A r \in Retailers : enabled[r] => wpc[r] = "done"
    /\ Cardinality(raised) >= SemCapacity
    /\ sem = SemCapacity

Truthy(x) == x \notin {Null, Absent, ""}

\* Python `a or b`.
Or(a, b) == IF Truthy(a) THEN a ELSE b

\* dict.get(key, default): the default only stands in for a missing key.
RowGet(row, key, default) == IF row[key] = Absent THEN default ELSE row[key]

\* SQL NULLIF(x, '') and COALESCE(a, b).
NullIfEmpty(x) == IF x = "" THEN Null ELSE x

Coalesce(a, b) == IF a # Null THEN a ELSE b

\* The id a SERIAL column gives to a new row.  Ids are unique per table
\* and otherwise arbitrary; the model fixes one id per conflict key.
RetailerSerial(slug) == IF slug = "shufersal" THEN 1 ELSE 2

StoreSerial(retailer_db_id, external_id) == 10 + retailer_db_id

ProductSerial(barcode) == IF barcode = "7290000000001" THEN 101 ELSE 102

ExternalIds == {"001"}

\* db.py:87: f"Store {external_id}".
StorePlaceholder(external_id) == "Store 001"

\* db.py:116: f"Unknown ({barcode})".
ProductPlaceholder(barcode) ==
    IF barcode = "7290000000001" THEN "Unknown (7290000000001)"
    ELSE "Unknown (7290000000002)"

\* db.py:32-52: the name is always replaced; needCreds is replaced only
\* when the caller passes one.
RetailersAfterUpsert(slug, name, need_creds) ==
    IF slug \in DOMAIN db_retailers
    THEN [db_retailers EXCEPT ![slug] =
            [id |-> @.id, name |-> name,
             needCreds |-> IF need_creds = Null THEN @.needCreds
                           ELSE need_creds]]
    ELSE db_retailers @@
         (slug :> [id |-> RetailerSerial(slug), name |-> name,
                   needCreds |-> IF need_creds = Null THEN "False"
                                 ELSE need_creds])

\* The rows an INSERT into stores conflicts with, had the unique index
\* been on "externalId" alone.
ConflictOnExternalId(retailer_db_id, external_id) ==
    {k \in DOMAIN db_stores : k[2] = external_id}

\* db.py:100: ON CONFLICT ("retailerId", "externalId").
Conflict(retailer_db_id, external_id) ==
    {k \in DOMAIN db_stores : k = <<retailer_db_id, external_id>>}

\* db.py:87-108: the table after the statement, and the id it returns.
StoresAfterUpsert(retailer_db_id, external_id, name, city, address) ==
    LET display_name == Or(name, StorePlaceholder(external_id))
        hit == Conflict(retailer_db_id, external_id)
    IN  IF hit # {}
        THEN LET key == CHOOSE k \in hit : TRUE
             IN  [id |-> db_stores[key].id,
                  table |-> [db_stores EXCEPT ![key] =
                     [id |-> @.id, retailerId |-> @.retailerId,
                      name |-> Coalesce(NullIfEmpty(display_name), @.name),
                      city |-> Coalesce(NullIfEmpty(city), @.city),
                      address |-> Coalesce(NullIfEmpty(address), @.address)]]]
        ELSE [id |-> StoreSerial(retailer_db_id, external_id),
              table |-> db_stores @@
                 (<<retailer_db_id, external_id>> :>
                     [id |-> StoreSerial(retailer_db_id, external_id),
                      retailerId |-> retailer_db_id,
                      name |-> display_name, city |-> city,
                      address |-> address])]

\* db.py:116-131.
ProductsAfterUpsert(barcode, name, brand, quantity, unit, is_weighted, image_url) ==
    LET placeholder_name == Or(name, ProductPlaceholder(barcode))
        sent_name == IF Truthy(name) THEN name ELSE placeholder_name
    IN  IF barcode \in DOMAIN db_products
        THEN [db_products EXCEPT ![barcode] =
                [id |-> @.id,
                 name |-> Coalesce(NullIfEmpty(sent_name), @.name),
                 brand |-> Coalesce(NullIfEmpty(brand), @.brand),
                 quantity |-> Coalesce(quantity, @.quantity),
                 unit |-> Coalesce(NullIfEmpty(unit), @.unit),
                 isWeighted |-> Coalesce(is_weighted, @.isWeighted),
                 imageUrl |-> Coalesce(NullIfEmpty(image_url), @.imageUrl)]]
        ELSE db_products @@
             (barcode :> [id |-> ProductSerial(barcode), name |-> sent_name,
                          brand |-> brand, quantity |-> quantity,
                          unit |-> unit, isWeighted |-> is_weighted,
                          imageUrl |-> image_url])

\* Values a caller may pass for a store's name, city and address.
NameArgs == {Null, "", "A"}
CityArgs == {Null, "", "B"}
AddressArgs == {Null, "C"}

DbLocals == <<spc, db_retailer_id, store_metadata, store_cache, todo>>

\* db.py:25-53, called as upsert_retailer(slug, slug) and, by the seeding
\* scripts, with an explicit need_creds.
UpsertRetailer(slug, need_creds) ==
    /\ budget > 0 /\ budget' = budget - 1
    /\ call' = [op |-> "retailer", slug |-> slug]
    /\ \/ /\ db_pool
          /\ db_retailers' = RetailersAfterUpsert(slug, slug, need_creds)
       \/ UNCHANGED db_retailers          \* no pool, or the statement raised
    /\ UNCHANGED <<db_pool, db_stores, db_products, db_snapshots, DbLocals>>

\* db.py:81-108, for a retailer id that upsert_retailer has returned.
UpsertStore(slug, external_id, name, city, address) ==
    /\ slug \in DOMAIN db_retailers
    /\ budget > 0 /\ budget' = budget - 1
    /\ call' = [op |-> "store", key |-> <<db_retailers[slug].id, external_id>>,
                name |-> name, city |-> city, address |-> address]
    /\ \/ /\ Truthy(external_id) /\ db_pool
          /\ db_stores' = StoresAfterUpsert(db_retailers[slug].id, external_id,
                                            name, city, address).table
       \/ UNCHANGED db_stores   \* no external id, no pool, or it raised
    /\ UNCHANGED <<db_pool, db_retailers, db_products, db_snapshots, DbLocals>>

DbFrame == UNCHANGED <<retVars, runVars, parseVars, archiveVars, discoverVars, mainVars, dedupVars, orderVars, selectVars, loginVars, datesVars, buttonsVars, metaVars, saveVars, woltVars, exitVars, syncVars, flatVars>>

StoreInit ==
    /\ RetIdle /\ RunIdle /\ ParseIdle /\ DiscoverIdle /\ MainIdle /\ DedupIdle /\ OrderIdle /\ SelectIdle /\ LoginIdle /\ DatesIdle /\ ButtonsIdle /\ MetaIdle /\ SaveIdle /\ WoltIdle /\ ExitIdle /\ SyncIdle /\ FlatIdle
    /\ db_pool \in BOOLEAN
    /\ db_retailers = EmptyTable
    /\ db_stores = EmptyTable
    /\ db_products = EmptyTable
    /\ db_snapshots = {}
    /\ spc = [w \in Slugs |-> "idle"]
    /\ db_retailer_id = [w \in Slugs |-> NoId]
    /\ store_metadata = [w \in Slugs |-> Null]
    /\ store_cache = [w \in Slugs |-> EmptyTable]
    /\ todo = [w \in Slugs |-> FALSE]
    /\ budget = MaxCalls
    /\ call = NoCall

StoreNext ==
    \/ \E slug \in Slugs, need_creds \in {Null, "True"} :
          UpsertRetailer(slug, need_creds) /\ DbFrame
    \/ \E slug \in Slugs, external_id \in ExternalIds \cup {Null},
          name \in NameArgs, city \in CityArgs, address \in AddressArgs :
          UpsertStore(slug, external_id, name, city, address) /\ DbFrame

SpecStore == StoreInit /\ [][StoreNext]_vars

\* A call that carries no value for a field.
NoValue(x) == x \in {Null, ""}

\* C5: an upsert_store call on an existing (retailer, external id) that
\* passes None or "" for name, city or address leaves the stored value of
\* that field as it was; so name "A" survives a later call with name None.
C5_StoreFieldsPreserved ==
    [][(call'.op = "store" /\ call'.key \in DOMAIN db_stores) =>
         LET old == db_stores[call'.key]
             new == db_stores'[call'.key]
         IN  /\ NoValue(call'.name) => new.name = old.name
             /\ NoValue(call'.city) => new.city = old.city
             /\ NoValue(call'.address) => new.address = old.address]_vars

(***************************************************************************)
(* save_parsed_prices (db.py:156-224) on the rows parse_prices_xml builds. *)
(* Each retailer's task saves its files one after the other; the tasks of  *)
(* different retailers interleave between rows.                            *)
(***************************************************************************)
Prices == {"9.90", "n/a"}

\* db.py:171-173: float(row.get("price", "0")).
IsFloat(p) == p # "n/a"

\* parsers.py:137-146: a promotion row has no name and no brand, unit,
\* quantity or is_weighted key.
PromoRows ==
    {[barcode |-> b, price |-> p, name |-> Null, image_url |-> i,
      brand |-> Absent, unit |-> Absent, quantity |-> Absent,
      is_weighted |-> Absent] :
        b \in Barcodes, p \in Prices, i \in {Null}}

\* parsers.py:194-222: a price row has every key; a field whose element is
\* missing is None, and is_weighted is None when the item has no flag.
PriceRows ==
    {[barcode |-> b, price |-> p, name |-> f[1], image_url |-> f[2],
      brand |-> f[3], unit |-> f[4], quantity |-> f[5],
      is_weighted |-> f[6]] :
        b \in Barcodes, p \in Prices,
        f \in {<<"Milk", "img.png", "Tnuva", "L", "1.0", "True">>,
               <<Null, Null, Null, Null, Null, Null>>}}

Rows == PromoRows \cup PriceRows

\* parsers.py:80-112: store id, name, city and address, each text or None.
StoreMetadata ==
    {[store_id |-> c[1], name |-> c[2], city |-> c[3], address |-> c[4]] :
        c \in {<<Null, Null, Null, Null>>,
               <<"001", Null, Null, Null>>,
               <<"001", "Branch", "Haifa", "Herzl 1">>}}

\* db.py:157-168.  parse_from_blob passes the slug as the name and calls
\* only with rows (parsers.py:244-246).
BeginSave(w) ==
    /\ spc[w] = "idle" /\ budget > 0
    /\ \E meta \in StoreMetadata, ok \in BOOLEAN :
         /\ call' = NoCall
         /\ IF db_pool /\ ok
            THEN /\ db_retailers' = RetailersAfterUpsert(w, w, Null)
                 /\ db_retailer_id' =
                       [db_retailer_id EXCEPT ![w] = db_retailers'[w].id]
                 /\ store_metadata' = [store_metadata EXCEPT ![w] = meta]
                 /\ store_cache' = [store_cache EXCEPT ![w] = EmptyTable]
                 /\ todo' = [todo EXCEPT ![w] = TRUE]
                 /\ spc' = [spc EXCEPT ![w] = "rows"]
            ELSE UNCHANGED <<db_retailers, db_retailer_id, store_metadata,
                             store_cache, todo, spc>>
    /\ UNCHANGED <<db_pool, db_stores, db_products, db_snapshots, budget>>

\* parsers.py:120, 142, 215: every row of a file carries the file's
\* effective store id, which is the store id of its metadata.
RowStoreId(w) == store_metadata[w].store_id

\* The call is over: its locals are gone.
Return(w) ==
    /\ spc' = [spc EXCEPT ![w] = "idle"]
    /\ todo' = [todo EXCEPT ![w] = FALSE]
    /\ db_retailer_id' = [db_retailer_id EXCEPT ![w] = NoId]
    /\ store_metadata' = [store_metadata EXCEPT ![w] = Null]
    /\ store_cache' = [store_cache EXCEPT ![w] = EmptyTable]

\* The next row of the list, if the file has one and the run's budget
\* allows it.
Continue(w, cache) ==
    /\ \E more \in {m \in BOOLEAN : m => budget > 1} :
          todo' = [todo EXCEPT ![w] = more]
    /\ store_cache' = cache
    /\ UNCHANGED <<spc, db_retailer_id, store_metadata>>

\* db.py:170-221, one pass of the row loop.  upsert_store and
\* upsert_product are awaited outside any try, so a statement that raises
\* ends the whole call; a failed snapshot insert is logged and skipped.
SaveRow(w) ==
    /\ spc[w] = "rows" /\ todo[w]
    /\ budget > 0 /\ budget' = budget - 1
    /\ \E row \in Rows, raises \in {"none", "store", "product", "snapshot"} :
         LET meta == store_metadata[w]
             rid == db_retailer_id[w]
             ext_store_id == Or(RowStoreId(w), meta.store_id)
             cached == ext_store_id \in DOMAIN store_cache[w]
             asks == Truthy(ext_store_id) /\ ~cached
             upsert == StoresAfterUpsert(rid, ext_store_id, meta.name,
                                         meta.city, meta.address)
             stores1 == IF asks THEN upsert.table ELSE db_stores
             db_store_id ==
                 IF ~Truthy(ext_store_id) THEN NoId
                 ELSE IF cached THEN store_cache[w][ext_store_id]
                 ELSE upsert.id
             cache1 == IF asks
                       THEN [store_cache EXCEPT ![w] =
                                @ @@ (ext_store_id :> db_store_id)]
                       ELSE store_cache
             products1 ==
                 ProductsAfterUpsert(row.barcode,
                                     RowGet(row, "name", Null),
                                     RowGet(row, "brand", Null),
                                     RowGet(row, "quantity", Null),
                                     RowGet(row, "unit", Null),
                                     RowGet(row, "is_weighted", "False"),
                                     RowGet(row, "image_url", Null))
             db_product_id == products1[row.barcode].id
         IN  IF ~IsFloat(row.price)
             THEN /\ raises = "none"
                  /\ call' = NoCall
                  /\ Continue(w, store_cache)
                  /\ UNCHANGED <<db_stores, db_products, db_snapshots>>
             ELSE \/ /\ raises = "store" /\ asks
                     /\ call' = NoCall
                     /\ Return(w)
                     /\ UNCHANGED <<db_stores, db_products, db_snapshots>>
                  \/ /\ raises = "product"
                     /\ call' = NoCall
                     /\ db_stores' = stores1
                     /\ Return(w)
                     /\ UNCHANGED <<db_products, db_snapshots>>
                  \/ /\ raises \in {"none", "snapshot"}
                     /\ call' = [op |-> "product", row |-> row]
                     /\ db_stores' = stores1
                     /\ db_products' = products1
                     /\ db_snapshots' =
                           IF raises = "none" /\ db_product_id # NoId
                           THEN db_snapshots \cup
                                   {[productId |-> db_product_id,
                                     retailerId |-> rid,
                                     storeId |-> db_store_id]}
                           ELSE db_snapshots
                     /\ Continue(w, cache1)
    /\ UNCHANGED <<db_pool, db_retailers>>

\* db.py:223-224: the loop is over; the count is logged and returned.
EndSave(w) ==
    /\ spc[w] = "rows" /\ ~todo[w]
    /\ Return(w)
    /\ call' = NoCall
    /\ UNCHANGED <<db_pool, db_retailers, db_stores, db_products,
                   db_snapshots, budget>>

DbInit ==
    /\ RetIdle /\ RunIdle /\ ParseIdle /\ DiscoverIdle /\ MainIdle /\ DedupIdle /\ OrderIdle /\ SelectIdle /\ LoginIdle /\ DatesIdle /\ ButtonsIdle /\ MetaIdle /\ SaveIdle /\ WoltIdle /\ ExitIdle /\ SyncIdle /\ FlatIdle
    /\ db_pool \in BOOLEAN
    /\ db_retailers = EmptyTable
    /\ db_stores = EmptyTable
    /\ db_products = EmptyTable
    /\ db_snapshots = {}
    /\ spc = [w \in Slugs |-> "idle"]
    /\ db_retailer_id = [w \in Slugs |-> NoId]
    /\ store_metadata = [w \in Slugs |-> Null]
    /\ store_cache = [w \in Slugs |-> EmptyTable]
    /\ todo = [w \in Slugs |-> FALSE]
    /\ budget = MaxRows
    /\ call = NoCall

DbNext ==
    \/ \E w \in Slugs : BeginSave(w) /\ DbFrame
    \/ \E w \in Slugs : SaveRow(w) /\ DbFrame
    \/ \E w \in Slugs : EndSave(w) /\ DbFrame

SpecDb == DbInit /\ [][DbNext]_vars

\* C6: when save_parsed_prices upserts a row for a barcode whose product
\* holds a value from a file in name, brand, quantity, unit, is-weighted or
\* image URL, and the row carries no value for that field, the stored value
\* stays as it was.
C6_ProductFieldsPreserved ==
    [][(call'.op = "product" /\ call'.row.barcode \in DOMAIN db_products) =>
         LET row == call'.row
             old == db_products[row.barcode]
             new == db_products'[row.barcode]
         IN  /\ (~Truthy(row.name)
                   /\ old.name # ProductPlaceholder(row.barcode))
                  => new.name = old.name
             /\ (~Truthy(row.brand) /\ old.brand # Null)
                  => new.brand = old.brand
             /\ (~Truthy(row.quantity) /\ old.quantity # Null)
                  => new.quantity = old.quantity
             /\ (~Truthy(row.unit) /\ old.unit # Null)
                  => new.unit = old.unit
             /\ (~Truthy(row.is_weighted) /\ old.isWeighted # Null)
                  => new.isWeighted = old.isWeighted
             /\ (~Truthy(row.image_url) /\ old.imageUrl # Null)
                  => new.imageUrl = old.imageUrl]_vars

\* C7: every price snapshot references a product row and a retailer row
\* that exist, and its store is absent or an existing store of that
\* retailer.
C7_SnapshotReferences ==
    \A s \in db_snapshots :
           /\ \E b \in DOMAIN db_products : db_products[b].id = s.productId
           /\ \E g \in DOMAIN db_retailers : db_retailers[g].id = s.retailerId
           /\ \/ s.storeId = NoId
              \/ \E k \in DOMAIN db_stores :
                    /\ db_stores[k].id = s.storeId
                    /\ db_stores[k].retailerId = s.retailerId

\* C7 witness: two retailers each hold a snapshot at their store with the
\* same external id.
C7_Witness ==
    \E s, t \in db_snapshots :
       /\ s.retailerId # t.retailerId
       /\ s.storeId # NoId
       /\ t.storeId # NoId

(***************************************************************************)
(* parse_prices_xml (parsers.py:62-224): the promotion loop, then the item *)
(* loop with its choice between the regular and the promotion price.  A    *)
(* document is the list of its elements that can carry a barcode: Item     *)
(* elements, standing alone or inside a Promotion, and other children of   *)
(* the root.                                                               *)
(***************************************************************************)
\* The text of a price element: missing, numbers, NaN, not a number.
PriceTexts == {Null, "8.00", "10.00", "nan", "abc"}

\* float(text) succeeds; "nan" is a float.
Parses(t) == t \in {"8.00", "10.00", "nan"}

\* The value of float(text), in agorot.
FloatOf(t) == IF t = "8.00" THEN 800 ELSE 1000

\* a <= b on floats; every comparison with NaN is false.
LessOrEqual(a, b) == a # "nan" /\ b # "nan" /\ FloatOf(a) <= FloatOf(b)

\* parsers.py:169: promotion_price < regular_price.
Less(a, b) == a # "nan" /\ b # "nan" /\ FloatOf(a) < FloatOf(b)

\* promo: the DiscountedPrice of the enclosing Promotion; Absent when the
\* element is not inside a Promotion.
Elements ==
    {[tag |-> "Item", promo |-> Absent, code |-> c, regular |-> r,
      promotion |-> q] :
        c \in {Null, "7290000000001"}, r \in PriceTexts, q \in PriceTexts}
    \cup
    {[tag |-> "Item", promo |-> d, code |-> c, regular |-> o[1],
      promotion |-> o[2]] :
        d \in {Null, "5.00"}, c \in {Null, "7290000000001"},
        o \in {<<Null, Null>>, <<"10.00", "8.00">>}}
    \cup
    {[tag |-> "Line", promo |-> Absent, code |-> "7290000000001",
      regular |-> "10.00", promotion |-> q] : q \in {Null, "8.00"}}

Documents ==
    {[well_formed |-> FALSE, children |-> <<>>]} \cup
    {[well_formed |-> TRUE, children |-> c] :
        c \in {<<>>} \cup SeqsUpTo(Elements, MaxItems)}

RECURSIVE Flatten(_)
Flatten(ss) == IF ss = <<>> THEN <<>> ELSE Head(ss) \o Flatten(Tail(ss))

\* parsers.py:124-146, for one Item under a Promotion.
PromotionRows(el) ==
    IF el.promo \in {Absent, Null} \/ el.code = Null THEN <<>>
    ELSE <<[barcode |-> el.code, price |-> el.promo, is_on_sale |-> TRUE,
            name |-> Null, brand |-> Absent]>>

\* parsers.py:160-190: the price to use and whether the item is on sale;
\* price Null stands for `continue`.
PriceDecision(regular_price_str, promotion_price_str) ==
    IF promotion_price_str # Null /\ regular_price_str # Null
    THEN IF Parses(regular_price_str) /\ Parses(promotion_price_str)
         THEN IF Less(promotion_price_str, regular_price_str)
              THEN [price |-> promotion_price_str, is_on_sale |-> TRUE]
              ELSE [price |-> regular_price_str, is_on_sale |-> FALSE]
         ELSE [price |-> regular_price_str, is_on_sale |-> FALSE]
    ELSE IF promotion_price_str # Null
    THEN [price |-> promotion_price_str, is_on_sale |-> TRUE]
    ELSE IF regular_price_str # Null
    THEN [price |-> regular_price_str, is_on_sale |-> FALSE]
    ELSE [price |-> Null, is_on_sale |-> FALSE]

\* parsers.py:154-222, for one element of the item loop.
ItemRows(it) ==
    LET d == PriceDecision(it.regular, it.promotion)
    IN  IF d.price = Null \/ it.code = Null THEN <<>>
        ELSE <<[barcode |-> it.code, price |-> d.price,
                is_on_sale |-> d.is_on_sale, brand |-> Null]>>

IsItem(el) == el.tag = "Item"

\* parsers.py:151-152: every Item of the document, or, when it has none,
\* the children of the root.
ItemLoopElements(children) ==
    IF SelectSeq(children, IsItem) # <<>> THEN SelectSeq(children, IsItem)
    ELSE children

\* parsers.py:72-75 and 124-224.
parse_prices_xml(doc) ==
    IF ~doc.well_formed THEN <<>>
    ELSE LET items == ItemLoopElements(doc.children)
         IN  Flatten([i \in 1..Len(doc.children) |->
                         PromotionRows(doc.children[i])])
             \o Flatten([i \in 1..Len(items) |-> ItemRows(items[i])])

ParseFrame == UNCHANGED <<retVars, runVars, dbVars, archiveVars, discoverVars, mainVars, dedupVars, orderVars, selectVars, loginVars, datesVars, buttonsVars, metaVars, saveVars, woltVars, exitVars, syncVars, flatVars>>

ParseInit ==
    /\ RetIdle /\ RunIdle /\ DbIdle /\ DiscoverIdle /\ MainIdle /\ DedupIdle /\ OrderIdle /\ SelectIdle /\ LoginIdle /\ DatesIdle /\ ButtonsIdle /\ MetaIdle /\ SaveIdle /\ WoltIdle /\ ExitIdle /\ SyncIdle /\ FlatIdle
    /\ xml \in Documents
    /\ ppc = "ready"
    /\ parsed_rows = <<>>
    /\ data = Null
    /\ filename_hint = ""
    /\ ipc = "none"
    /\ entries = <<>>
    /\ attempted = <<>>

ParsePricesXml ==
    /\ ppc = "ready"
    /\ parsed_rows' = parse_prices_xml(xml)
    /\ ppc' = "done"
    /\ UNCHANGED xml

ParseNext == ParsePricesXml /\ ParseFrame

SpecParse == ParseInit /\ [][ParseNext]_vars

\* The claim's table, by the numbers the texts stand for.
IsNumber(t) == t \in {"8.00", "10.00"}

Agorot(t) == IF t = "8.00" THEN 800 ELSE 1000

PromotionIsCheaper(it) ==
    /\ IsNumber(it.promotion) /\ IsNumber(it.regular)
    /\ Agorot(it.promotion) < Agorot(it.regular)

\* The (price, is_on_sale) pairs the table gives for an item with a barcode.
TableRows(it) ==
    IF it.code = Null THEN <<>>
    ELSE IF it.regular # Null /\ it.promotion # Null
    THEN IF PromotionIsCheaper(it) THEN <<<<it.promotion, TRUE>>>>
         ELSE <<<<it.regular, FALSE>>>>
    ELSE IF it.promotion # Null THEN <<<<it.promotion, TRUE>>>>
    ELSE IF it.regular # Null THEN <<<<it.regular, FALSE>>>>
    ELSE <<>>

FromItemLoop(row) == row.brand # Absent

\* C8: the rows of the item loop carry, item by item, the promotion price
\* and is_on_sale=true when both prices are present and promotion < regular,
\* the regular price and false when both are present otherwise, promotion
\* and true with only a promotion price, regular and false with only a
\* regular price, and there is no row for an item with neither.
C8_PriceDecision ==
    ppc = "done" =>
       LET items == ItemLoopElements(xml.children)
           got == SelectSeq(parsed_rows, FromItemLoop)
       IN  [i \in 1..Len(got) |-> <<got[i].price, got[i].is_on_sale>>]
             = Flatten([i \in 1..Len(items) |-> TableRows(items[i])])

\* C8 witness: a parsed document with an item whose promotion is cheaper
\* and an item whose promotion equals the regular price, both with rows.
C8_Witness ==
    /\ ppc = "done" /\ Len(parsed_rows) = 2
    /\ Len(xml.children) = 2
    /\ PromotionIsCheaper(xml.children[1])
    /\ xml.children[2].promotion = "8.00" /\ xml.children[2].regular = "8.00"
    /\ parsed_rows[1].is_on_sale /\ ~parsed_rows[2].is_on_sale

\* The document holds Promotion nodes that carry a discounted price, and no
\* Item outside them.
PromotionDocument ==
    /\ xml.well_formed /\ xml.children # <<>>
    /\ \A i \in 1..Len(xml.children) :
          xml.children[i].promo \notin {Absent, Null}

\* The row the specification gives for an Item under such a Promotion: none
\* without a barcode.
PromotionItemRow(el) ==
    IF el.code = Null THEN <<>>
    ELSE <<[barcode |-> el.code, price |-> el.promo, is_on_sale |-> TRUE,
            name |-> Null, brand |-> Absent]>>

\* C31: for a document of Promotion nodes parse_prices_xml emits exactly one
\* row for each Item under a Promotion that has a barcode, when the
\* Promotion carries a discounted price, with is_on_sale true and no name,
\* and no such Item produces a second row.
C31_OneRowPerPromotionItem ==
    (ppc = "done" /\ PromotionDocument) =>
        parsed_rows = Flatten([i \in 1..Len(xml.children) |->
                                  PromotionItemRow(xml.children[i])])

(***************************************************************************)
(* iter_xml_entries (archive_utils.py:19-46).  A blob is known by its      *)
(* first bytes, by what gzip and zipfile make of it, and by whether its    *)
(* first 200 bytes hold a "<" and a ">".  zipfile also reads an archive    *)
(* that has other bytes before its first entry.                            *)
(***************************************************************************)
Payloads == {"<Items/>", "<Promos/>"}

MemberNames == {"a.xml", "B.XML", "readme.txt"}

Members == [name : MemberNames, bytes : Payloads]

\* The bytes of the blob itself.
Whole == "<data>"

Hints == {"", "name.xml", "name.gz", "name.zip"}

\* What gzip raises on a blob it cannot read to the end, what ZipFile()
\* raises on a blob it cannot open, and what reading a member raises when
\* its data is damaged or encrypted.
GzipErrors == {"BadGzipFile", "EOFError"}
ZipErrors == {"BadZipFile"}
MemberErrors == {"BadZipFile", "RuntimeError"}

\* The last member of that name: the one zipfile opens under the name.
LastAt(members, name) ==
    CHOOSE i \in 1..Len(members) :
       /\ members[i].name = name
       /\ \A j \in 1..Len(members) : members[j].name = name => j <= i

\* magic: what the blob starts with.  gz_ok: GzipFile.read() succeeds, and
\* returns payload.  zip_ok: ZipFile() opens it, with these members.  error:
\* what the failing call raises.  bad: the member whose read raises
\* bad_error (0: every member reads).
BlobsIn ==
    {[magic |-> "gz", gz_ok |-> TRUE, payload |-> x, zip_ok |-> FALSE,
      members |-> <<>>, xmlish |-> FALSE, error |-> Null, bad |-> 0,
      bad_error |-> Null] : x \in Payloads}
    \cup
    {[magic |-> "gz", gz_ok |-> FALSE, payload |-> Null, zip_ok |-> FALSE,
      members |-> <<>>, xmlish |-> t, error |-> e, bad |-> 0,
      bad_error |-> Null] : t \in BOOLEAN, e \in GzipErrors}
    \cup
    {[magic |-> k, gz_ok |-> FALSE, payload |-> Null, zip_ok |-> TRUE,
      members |-> ms, xmlish |-> t, error |-> Null, bad |-> 0,
      bad_error |-> Null] :
        k \in {"zip", "raw"}, t \in BOOLEAN,
        ms \in {<<>>} \cup SeqsUpTo(Members, MaxMembers)}
    \cup
    {[magic |-> "zip", gz_ok |-> FALSE, payload |-> Null, zip_ok |-> TRUE,
      members |-> b[1], xmlish |-> t, error |-> Null, bad |-> b[2],
      bad_error |-> e] :
        t \in BOOLEAN, e \in MemberErrors,
        b \in {c \in SeqsUpTo(Members, MaxMembers) \X (1..MaxMembers) :
                 /\ c[2] <= Len(c[1])
                 /\ LastAt(c[1], c[1][c[2]].name) = c[2]}}
    \cup
    {[magic |-> "zip", gz_ok |-> FALSE, payload |-> Null, zip_ok |-> FALSE,
      members |-> <<>>, xmlish |-> t, error |-> e, bad |-> 0,
      bad_error |-> Null] : t \in BOOLEAN, e \in ZipErrors}
    \cup
    {[magic |-> "raw", gz_ok |-> FALSE, payload |-> Null, zip_ok |-> FALSE,
      members |-> <<>>, xmlish |-> t, error |-> Null, bad |-> 0,
      bad_error |-> Null] : t \in BOOLEAN}

\* archive_utils.py:10-16.
sniff_kind(d) == d.magic

\* filename_hint.replace(".gz", "").replace(".zip", "").
StripSuffixes(hint) == IF hint \in {"name.gz", "name.zip"} THEN "name" ELSE hint

\* name.endswith(".xml").
EndsWithXml(name) == name \in {"a.xml", "b.xml", "name.xml", "data.xml"}

\* The test of line 38 without lower().
IsXmlNameAsWritten(name) == EndsWithXml(name)

\* archive_utils.py:38.
IsXmlName(name) == EndsWithXml(Lower(name))

\* zf.open(name).read(): zipfile opens the last member of that name.
ReadMember(members, name) == members[LastAt(members, name)].bytes

\* The entry name of the raw branch, used for a zip member.
HintOrName(name, hint) == Or(hint, name)

\* archive_utils.py:40: a zip entry is named after its member.
ZipEntryName(name, hint) == name

\* archive_utils.py:37-40.
ZipEntries(members, hint) ==
    LET xmls == SelectSeq(members, LAMBDA m : IsXmlName(m.name))
    IN  [i \in 1..Len(xmls) |->
            <<ZipEntryName(xmls[i].name, hint),
              ReadMember(members, xmls[i].name)>>]

\* archive_utils.py:45-46.
RawEntries(d, hint) ==
    IF d.xmlish THEN << <<Or(hint, "data.xml"), Whole>> >> ELSE <<>>

\* An `except` clause for zipfile.BadZipFile alone.
CaughtIfBadZipFile(exc) == exc = "BadZipFile"

\* archive_utils.py:31, 42: `except Exception`.
Caught(exc) == TRUE

\* The entries of the zip loop up to the first member whose read raises.
ZipEntriesRead(d, hint) ==
    LET all == ZipEntries(d.members, hint)
        xmls == SelectSeq(d.members, LAMBDA m : IsXmlName(m.name))
        fails == {i \in 1..Len(xmls) :
                    d.bad # 0 /\ xmls[i].name = d.members[d.bad].name}
    IN  IF fails = {} THEN [entries |-> all, error |-> Null]
        ELSE [entries |->
                 SubSeq(all, 1, (CHOOSE i \in fails :
                                    \A j \in fails : i <= j) - 1),
              error |-> d.bad_error]

\* archive_utils.py:24-46: what the generator yields, and whether an
\* exception leaves it.
IterOutcome(d, hint) ==
    LET k == sniff_kind(d)
        gz_raises == k = "gz" /\ ~d.gz_ok
        tries_zip == k = "zip" \/ d.magic = "zip"
        read == IF tries_zip /\ d.zip_ok THEN ZipEntriesRead(d, hint)
                ELSE [entries |-> <<>>, error |-> d.error]
    IN  IF k = "gz" /\ d.gz_ok
        THEN [entries |->
                 << <<Or(StripSuffixes(hint), "data.xml"), d.payload>> >>,
              raised |-> FALSE]
        ELSE IF gz_raises /\ ~Caught(d.error)
        THEN [entries |-> <<>>, raised |-> TRUE]
        ELSE IF tries_zip /\ read.error = Null
        THEN [entries |-> read.entries, raised |-> FALSE]
        ELSE IF tries_zip /\ ~Caught(read.error)
        THEN [entries |-> read.entries, raised |-> TRUE]
        ELSE [entries |-> read.entries \o RawEntries(d, hint),
              raised |-> FALSE]

iter_xml_entries(d, hint) == IterOutcome(d, hint).entries

\* archive_utils.py:25-35: the decompressions the generator starts.  gzip is
\* opened when the blob was sniffed as gz; zipfile is opened, unless gzip
\* already gave the entry, when the blob was sniffed as zip or starts with
\* "PK".
ContainersAttempted(d) ==
    LET k == sniff_kind(d)
        tries_zip == k = "zip" \/ d.magic = "zip"
    IN  (IF k = "gz" THEN <<"gz">> ELSE <<>>)
        \o (IF ~(k = "gz" /\ d.gz_ok) /\ tries_zip THEN <<"zip">> ELSE <<>>)

ArchiveFrame == UNCHANGED <<retVars, runVars, dbVars, parseVars, discoverVars, mainVars, dedupVars, orderVars, selectVars, loginVars, datesVars, buttonsVars, metaVars, saveVars, woltVars, exitVars, syncVars, flatVars>>

ArchiveInit ==
    /\ RetIdle /\ RunIdle /\ DbIdle /\ DiscoverIdle /\ MainIdle /\ DedupIdle /\ OrderIdle /\ SelectIdle /\ LoginIdle /\ DatesIdle /\ ButtonsIdle /\ MetaIdle /\ SaveIdle /\ WoltIdle /\ ExitIdle /\ SyncIdle /\ FlatIdle
    /\ xml = <<>> /\ ppc = "none" /\ parsed_rows = <<>>
    /\ data \in BlobsIn
    /\ filename_hint \in Hints
    /\ ipc = "ready"
    /\ entries = <<>>
    /\ attempted = <<>>

IterXmlEntries ==
    /\ ipc = "ready"
    /\ entries' = iter_xml_entries(data, filename_hint)
    /\ attempted' = ContainersAttempted(data)
    /\ ipc' = IF IterOutcome(data, filename_hint).raised THEN "raised"
              ELSE "done"
    /\ UNCHANGED <<data, filename_hint>>

ArchiveNext == IterXmlEntries /\ ArchiveFrame

SpecArchive == ArchiveInit /\ [][ArchiveNext]_vars

ValidGzip(d) == d.magic = "gz" /\ d.gz_ok

ValidZip(d) == d.zip_ok /\ d.bad = 0

\* The entries of a zip with exactly one member that passes `test`: that
\* member's name and bytes, and nothing else.
OneXmlMemberYieldsIt(d, test(_)) ==
    LET at == {i \in 1..Len(d.members) : test(d.members[i].name)}
    IN  Cardinality(at) = 1 =>
           \A i \in at :
              entries = << <<d.members[i].name, d.members[i].bytes>> >>

GzipYieldsPayload ==
    (ipc = "done" /\ ValidGzip(data)) =>
        Len(entries) = 1 /\ entries[1][2] = data.payload

InSeq(x, seq) == \E i \in 1..Len(seq) : seq[i] = x

\* Decompression as gzip failed; decompression as zip failed.
GzipFailed == sniff_kind(data) = "gz" /\ ~data.gz_ok

ZipFailed == sniff_kind(data) = "zip" /\ (~data.zip_ok \/ data.bad # 0)

\* C34: when decompression as the sniffed container fails, decompression as
\* the other container (zip after gzip, gzip after zip) is attempted before
\* the blob is treated as raw or given up.
C34_OtherContainerTried ==
    ipc = "done" =>
        /\ GzipFailed => InSeq("zip", attempted)
        /\ ZipFailed => InSeq("gz", attempted)

\* C9 as stated: a valid gzip wrapping X yields one entry with bytes X, and
\* a valid zip with exactly one member whose name ends in ".xml" yields
\* exactly that member's name and bytes.
C9_RoundTripAsStated ==
    /\ GzipYieldsPayload
    /\ (ipc = "done" /\ ValidZip(data)) =>
          OneXmlMemberYieldsIt(data, IsXmlNameAsWritten)

\* C9: a valid gzip wrapping X yields one entry with bytes X, and a valid
\* zip that starts with "PK" and has exactly one member whose name ends in
\* ".xml" in any letter case yields exactly that member's name and bytes.
C9_RoundTrip ==
    /\ GzipYieldsPayload
    /\ (ipc = "done" /\ ValidZip(data) /\ data.magic = "zip") =>
          OneXmlMemberYieldsIt(data, LAMBDA n : EndsWithXml(Lower(n)))

\* C9 witness: a zip whose only XML member is named in capitals, next to a
\* member that is no XML, has been unpacked to that one entry.
C9_Witness ==
    /\ ipc = "done" /\ ValidZip(data) /\ data.magic = "zip"
    /\ Len(data.members) = 2
    /\ data.members[1].name = "readme.txt" /\ data.members[2].name = "B.XML"
    /\ entries = << <<"B.XML", data.members[2].bytes>> >>

\* C10 as stated: for every zip blob, the entries under the hint "name.gz"
\* are the entries under the hint "name.zip".
C10_HintIgnoredAsStated ==
    (ipc = "done" /\ filename_hint = "name.gz"
       /\ (data.magic = "zip" \/ ValidZip(data))) =>
          entries = iter_xml_entries(data, "name.zip")

\* C10: for every valid zip blob that starts with "PK", the entries under
\* the hint "name.gz" are the entries under the hint "name.zip".
C10_HintIgnored ==
    (ipc = "done" /\ filename_hint = "name.gz"
       /\ data.magic = "zip" /\ ValidZip(data)) =>
          entries = iter_xml_entries(data, "name.zip")

\* C10 witness: a zip with an XML member, downloaded as "name.gz", has
\* been unpacked to that member.
C10_Witness ==
    /\ ipc = "done" /\ filename_hint = "name.gz"
    /\ data.magic = "zip" /\ ValidZip(data)
    /\ Len(data.members) = 1 /\ data.members[1].name = "a.xml"
    /\ entries = << <<"a.xml", data.members[1].bytes>> >>

\* C11: a raw XML blob under "name.xml", a gzip blob under "name.gz" and a
\* zip blob holding one XML member under "name.zip" are sniffed as raw, gz
\* and zip, and the first entry has a name ending in ".xml"; for the zip it
\* is the member's name.
C11_SniffAndFirstName ==
    ipc = "done" =>
       /\ (data.magic = "raw" /\ data.xmlish /\ ~data.zip_ok
             /\ filename_hint = "name.xml")
            => /\ sniff_kind(data) = "raw"
               /\ entries # <<>> /\ EndsWithXml(entries[1][1])
       /\ (ValidGzip(data) /\ filename_hint = "name.gz")
            => /\ sniff_kind(data) = "gz"
               /\ entries # <<>> /\ EndsWithXml(entries[1][1])
       /\ (data.magic = "zip" /\ ValidZip(data) /\ filename_hint = "name.zip"
             /\ Len(data.members) = 1 /\ data.members[1].name = "a.xml")
            => /\ sniff_kind(data) = "zip"
               /\ entries # <<>> /\ entries[1][1] = "a.xml"

\* C12: consuming iter_xml_entries ends normally for every blob, also for
\* one that starts with the zip or the gzip signature and is no archive.
C12_NeverRaises == ipc # "raised"

\* C12 witness: a blob that starts with "PK" and that ZipFile rejects, with
\* no markup in its first bytes, has been consumed to an empty list.
C12_Witness ==
    /\ ipc = "done" /\ data.magic = "zip" /\ ~data.zip_ok
    /\ data.error = "BadZipFile" /\ ~data.xmlish
    /\ filename_hint = "name.gz"
    /\ entries = <<>>

(***************************************************************************)
(* Link discovery with the today-filter, and fetch_url.                    *)
(*                                                                         *)
(* A page is a list of entries.  An entry is a row of the file manager     *)
(* (publishedprices), a table row with a Download() button (bina) or a     *)
(* flat <a> link (generic, bina).  Of its date only three cases matter:    *)
(* it is the current local date, it is another date, or no date can be     *)
(* extracted from the entry.  The page does not change while the adapter   *)
(* runs.                                                                   *)
(***************************************************************************)
MaxEntries == 2

Dates == {"today", "other", "none"}

DiscoverAdapters == {"publishedprices", "generic", "bina"}

\* The entries the adapter's selectors can match on a page.  On a Bina page
\* a "button" is a row whose button the page-side evaluation returns; a
\* "quoted_button" is a row whose button has the onclick Download('<name>'),
\* which the pattern of bina.py:100 does not match and only the locators
\* find.
EntriesOf(a) ==
    IF a = "publishedprices" THEN [kind : {"file_row"}, date : Dates]
    ELSE IF a = "generic" THEN [kind : {"link"}, date : Dates]
    ELSE [kind : {"button", "quoted_button", "link"}, date : Dates]

\* The indices 1..n in order.
Indices(n) == [i \in 1..n |-> i]

Range(seq) == {seq[i] : i \in 1..Len(seq)}

\* publishedprices.py:302-363: a row whose date is not today's is skipped;
\* a row with no date is logged and appended.
publishedprices_collect_links(rows, filter) ==
    SelectSeq(Indices(Len(rows)), LAMBDA i :
        /\ rows[i].kind = "file_row"
        /\ (filter /\ rows[i].date # "none") => rows[i].date = "today")

\* generic.py:145-167: with the filter on, a link is added only when a date
\* was extracted and is_today accepts it.
collect_links_on_page(rows, filter) ==
    SelectSeq(Indices(Len(rows)), LAMBDA i :
        /\ rows[i].kind = "link"
        /\ filter => rows[i].date = "today")

\* bina.py:139-167: with the filter on, a button row without a date or with
\* another date is skipped.
bina_collect_download_buttons(rows, filter) ==
    SelectSeq(Indices(Len(rows)), LAMBDA i :
        /\ rows[i].kind = "button"
        /\ filter => rows[i].date = "today")

\* bina.py:178-222: every .gz or .zip anchor of every frame; no date is
\* looked at.
bina_collect_gz_links(rows) == SelectSeq(Indices(Len(rows)), LAMBDA i : rows[i].kind = "link")

\* A collected link: the page entry it came from, and whether it is a
\* "download_button:" pseudo-link (bina.py:251).
Link(i, pseudo) == [entry |-> i, pseudo |-> pseudo]

AsLinks(idx, pseudo) == [k \in 1..Len(idx) |-> Link(idx[k], pseudo)]

\* The collected links with nothing taken out.
unfiltered_links == links

\* bina.py:600-601: the links are split on the "download_button:" prefix.
pseudo_links == SelectSeq(links, LAMBDA l : l.pseudo)

real_links == SelectSeq(links, LAMBDA l : ~l.pseudo)

\* bina.py:297, 364, 447: the buttons a locator on onclick*='Download' finds,
\* in document order.
download_button_locator(rows) ==
    SelectSeq(Indices(Len(rows)), LAMBDA i : rows[i].kind \in {"button", "quoted_button"})

\* bina.py:131: button_index is the number of buttons the evaluation had
\* pushed before this one.
button_index(rows, i) ==
    Len(SelectSeq(bina_collect_download_buttons(rows, FALSE), LAMBDA j : j < i))

\* bina.py:369-391, 450-463: for each collected button the locator's
\* nth(button_index) is clicked.
ClickNth(rows, infos) ==
    {download_button_locator(rows)[button_index(rows, infos[k]) + 1] : k \in 1..Len(infos)}

\* bina.py:329-499, called with filter_today=True: strategy 1 clicks for the
\* buttons of today's rows; when there is none, strategy 2 collects the
\* buttons again without the filter and clicks for every one of them.
bina_fallback_click_downloads(rows) ==
    LET today == bina_collect_download_buttons(rows, TRUE)
        every == bina_collect_download_buttons(rows, FALSE)
    IN  IF today # <<>> THEN ClickNth(rows, today) ELSE ClickNth(rows, every)

\* download.py:35-60.  The RuntimeError of line 50 is raised inside the try
\* whose handler (line 57) returns the triple of None.
Statuses == {200, 403, 404, 500}

Ok(status) == status \in 200..299

fetch_url(status) ==
    IF status = 404 THEN "none_triple"
    ELSE IF status = 403 THEN "none_triple"
    ELSE IF ~Ok(status) THEN "none_triple"
    ELSE "data_triple"

DiscoverFrame == UNCHANGED <<retVars, runVars, dbVars, parseVars, archiveVars, mainVars, dedupVars, orderVars, selectVars, loginVars, datesVars, buttonsVars, metaVars, saveVars, woltVars, exitVars, syncVars, flatVars>>

DiscoverInit ==
    /\ RetIdle /\ RunIdle /\ DbIdle /\ ParseIdle /\ MainIdle /\ DedupIdle /\ OrderIdle /\ SelectIdle /\ LoginIdle /\ DatesIdle /\ ButtonsIdle /\ MetaIdle /\ SaveIdle /\ WoltIdle /\ ExitIdle /\ SyncIdle /\ FlatIdle
    /\ on_page \in DiscoverAdapters
    /\ page_rows \in SeqsUpTo(EntriesOf(on_page), MaxEntries)
       \* generic.py:194: the source's config can switch the filter off;
       \* publishedprices.py:414 and bina.py:246,615,636 pass True.
    /\ filter_today \in (IF on_page = "generic" THEN BOOLEAN ELSE {TRUE})
    /\ dpc = "collect"
    /\ links = <<>>
    /\ link_idx = 0
    /\ fetched = {}
    /\ clicked = {}
    /\ resp_status = 0
    /\ fetch_result = "none"
    /\ error_links = {}
    /\ downloaded_links = {}

\* publishedprices.py:414.
PublishedCollectLinks ==
    /\ dpc = "collect" /\ on_page = "publishedprices"
    /\ links' = AsLinks(publishedprices_collect_links(page_rows, filter_today),
                        FALSE)
    /\ dpc' = "fetch"
    /\ UNCHANGED <<on_page, page_rows, filter_today, link_idx, fetched,
                   clicked, resp_status, fetch_result, error_links, downloaded_links>>

\* generic.py:195-201: the retry on an empty list reads the same page.
GenericCollectLinks ==
    /\ dpc = "collect" /\ on_page = "generic"
    /\ links' = AsLinks(collect_links_on_page(page_rows, filter_today), FALSE)
    /\ dpc' = "fetch"
    /\ UNCHANGED <<on_page, page_rows, filter_today, link_idx, fetched,
                   clicked, resp_status, fetch_result, error_links, downloaded_links>>

\* bina.py:225-326 and 590-595.  Strategy 1 returns today's buttons as
\* pseudo-links; strategy 2 opens a tab and collects with the filter again;
\* strategy 3 returns the flat links; strategy 4 clicks the first Download
\* button of the page to capture the URL it requests.  An empty result makes
\* bina_adapter fall back to collect_links_on_page.
BinaCollectLinks ==
    /\ dpc = "collect" /\ on_page = "bina"
    /\ LET download_buttons == bina_collect_download_buttons(page_rows, TRUE)
           hrefs == bina_collect_gz_links(page_rows)
           located == download_button_locator(page_rows)
           generic == AsLinks(collect_links_on_page(page_rows, TRUE), FALSE)
       IN  IF download_buttons # <<>>
           THEN /\ links' = AsLinks(download_buttons, TRUE)
                /\ UNCHANGED clicked
           ELSE IF hrefs # <<>>
           THEN /\ links' = AsLinks(hrefs, FALSE)
                /\ UNCHANGED clicked
           ELSE IF located # <<>>
           THEN /\ clicked' = clicked \cup {located[1]}
                /\ \E captured \in BOOLEAN :
                      links' = IF captured
                               THEN <<Link(located[1], FALSE)>>
                               ELSE generic
           ELSE /\ links' = generic
                /\ UNCHANGED clicked
    /\ dpc' = "clicks"
    /\ UNCHANGED <<on_page, page_rows, filter_today, link_idx, fetched,
                   resp_status, fetch_result, error_links, downloaded_links>>

\* bina.py:607-645: pseudo-links are handled by clicking; with no link at
\* all the click fallback runs for each tab until one gives a download.
BinaClickDownloads ==
    /\ dpc = "clicks"
    /\ clicked' = IF pseudo_links # <<>> \/ Len(links) = 0
                  THEN clicked \cup bina_fallback_click_downloads(page_rows)
                  ELSE clicked
    /\ dpc' = "fetch"
    /\ UNCHANGED <<on_page, page_rows, filter_today, links, link_idx, fetched,
                   resp_status, fetch_result, error_links, downloaded_links>>

\* generic.py:224-225 is the only test for the triple of None.
ChecksForNone(a) == a = "generic"

\* The body of the download loop after fetch_url (publishedprices.py:431-479,
\* generic.py:223-257, bina.py:652-684).  With the triple of None and no
\* test for it, sniff_kind(None) raises AttributeError and the handler of
\* the loop appends download_error; a duplicate is counted and skipped.
LinkOutcome(a, triple, dup) ==
    IF triple = "none_triple"
    THEN IF ChecksForNone(a) THEN "continue" ELSE "download_error"
    ELSE IF dup THEN "skipped_dupe" ELSE "downloaded"

\* publishedprices.py:427-479, generic.py:220-257, bina.py:649-684: one round
\* of the download loop: the next real link is requested through fetch_url
\* and what came back is processed.
FetchLink(status, dup) ==
    /\ dpc = "fetch" /\ link_idx < Len(real_links)
    /\ link_idx' = link_idx + 1
    /\ fetched' = fetched \cup {real_links[link_idx + 1].entry}
    /\ resp_status' = status
    /\ fetch_result' = fetch_url(status)
    /\ LET outcome == LinkOutcome(on_page, fetch_url(status), dup) IN
         /\ error_links' = IF outcome = "download_error"
                           THEN error_links \cup {link_idx + 1} ELSE error_links
         /\ downloaded_links' = IF outcome = "downloaded"
                          THEN downloaded_links \cup {link_idx + 1} ELSE downloaded_links
    /\ UNCHANGED <<on_page, page_rows, filter_today, dpc, links, clicked>>

\* The download loop is through.
DiscoverReturn ==
    /\ dpc = "fetch" /\ link_idx = Len(real_links)
    /\ dpc' = "done"
    /\ UNCHANGED <<on_page, page_rows, filter_today, links, link_idx, fetched,
                   clicked, resp_status, fetch_result, error_links, downloaded_links>>

DiscoverNext ==
    \/ PublishedCollectLinks /\ DiscoverFrame
    \/ GenericCollectLinks /\ DiscoverFrame
    \/ BinaCollectLinks /\ DiscoverFrame
    \/ BinaClickDownloads /\ DiscoverFrame
    \/ \E status \in Statuses : \E dup \in BOOLEAN : FetchLink(status, dup) /\ DiscoverFrame
    \/ DiscoverReturn /\ DiscoverFrame

SpecDiscover == DiscoverInit /\ [][DiscoverNext]_vars

\* The page entries from which no date can be extracted.
Dateless == {i \in 1..Len(page_rows) : page_rows[i].date = "none"}

\* C13: with the today-filter on, an entry without a date is not among the
\* links to download and is neither fetched nor clicked, in every adapter.
C13_DatelessExcluded ==
    filter_today =>
       \A i \in Dateless :
          /\ i \notin {links[k].entry : k \in 1..Len(links)}
          /\ i \notin fetched
          /\ i \notin clicked

\* C14: bina_adapter clicks no Download button whose row date differs from
\* the current local date, whatever the table holds.
C14_ClicksOnlyToday ==
    on_page = "bina" =>
       \A i \in clicked : page_rows[i].date # "other"

\* C15: fetch_url returns the triple of None for 404 and 403, raises for
\* any other status that is not OK, and returns the body otherwise.
C15_FetchUrlOutcome ==
    link_idx > 0 =>
       /\ resp_status \in {404, 403} => fetch_result = "none_triple"
       /\ (resp_status \notin {404, 403} /\ ~Ok(resp_status))
             => fetch_result = "raised"
       /\ Ok(resp_status) => fetch_result = "data_triple"

\* C23: a link answered with 404 or 403 adds no entry to the result's errors
\* and leaves files_downloaded as it was, in every adapter, and the loop ends
\* only when every link was requested.
C23_SoftSkip ==
    /\ [][(link_idx' = link_idx + 1 /\ resp_status' \in {404, 403}) =>
             /\ error_links' = error_links
             /\ downloaded_links' = downloaded_links]_vars
    /\ [](dpc = "done" => link_idx = Len(real_links))

\* C24: a link answered with a status that is not OK and neither 404 nor
\* 403 gets an entry in the result's errors, in every adapter, and the loop
\* ends only when every link was requested.
C24_ErrorRecorded ==
    /\ [][(link_idx' = link_idx + 1 /\ resp_status' \notin {404, 403} /\ ~Ok(resp_status')) =>
             (link_idx + 1) \in error_links']_vars
    /\ [](dpc = "done" => link_idx = Len(real_links))

(***************************************************************************)
(* main of run_crawler.py: the exit code of the batch job.                 *)
(*                                                                         *)
(* run_all is seen through what asyncio.gather hands back: for every task  *)
(* either the exception the worker ended with or the list of results       *)
(* crawl_retailer returned, one per source it handled.                     *)
(***************************************************************************)
MaxTasks == 2

\* A result is kept as whether its errors list holds an entry.
TaskOutcomes ==
    {[exc |-> TRUE, results |-> <<>>]}
    \cup {[exc |-> FALSE, results |-> rs] :
             rs \in {<<>>} \cup SeqsUpTo(BOOLEAN, MaxSources)}

\* core.py:186-188: the entry made for a worker that raised has the key
\* "error" and no key "errors".
ErrorEntry == [error |-> TRUE, errors |-> Absent]

\* core.py:200-202: result.as_dict() has the key "errors".
ResultDict(has_errors) ==
    [error |-> FALSE, errors |-> IF has_errors THEN "nonempty" ELSE "empty"]

\* core.py:182-215.
RECURSIVE GatherOut(_)
GatherOut(gs) ==
    IF gs = <<>> THEN <<>>
    ELSE (IF Head(gs).exc THEN <<ErrorEntry>>
          ELSE [k \in 1..Len(Head(gs).results) |->
                   ResultDict(Head(gs).results[k])])
         \o GatherOut(Tail(gs))

\* run_crawler.py:168: r.get("errors") is None when the key is missing.
GetErrors(r) == IF r.errors = Absent THEN Null ELSE r.errors

success_count == Cardinality({i \in 1..Len(out) : GetErrors(out[i]) # "nonempty"})

error_count == Len(out) - success_count

MainFrame == UNCHANGED <<retVars, runVars, dbVars, parseVars, archiveVars, discoverVars, dedupVars, orderVars, selectVars, loginVars, datesVars, buttonsVars, metaVars, saveVars, woltVars, exitVars, syncVars, flatVars>>

MainInit ==
    /\ RetIdle /\ RunIdle /\ DbIdle /\ ParseIdle /\ DiscoverIdle /\ DedupIdle /\ OrderIdle /\ SelectIdle /\ LoginIdle /\ DatesIdle /\ ButtonsIdle /\ MetaIdle /\ SaveIdle /\ WoltIdle /\ ExitIdle /\ SyncIdle /\ FlatIdle
    /\ gathered \in SeqsUpTo(TaskOutcomes, MaxTasks)
    /\ out = <<>>
    /\ mpc = "run_all"
    /\ exit_code = Null
    /\ finished = {}
    /\ reported = <<>>

\* core.py:178-215: the tasks are through and run_all returns.
RunAllReturns ==
    /\ mpc = "run_all"
    /\ out' = GatherOut(gathered)
    /\ finished' = 1..Len(gathered)
    /\ mpc' = "count"
    /\ UNCHANGED <<gathered, exit_code, reported>>

\* run_crawler.py:162-165: wait_for gives up at the deadline while some task
\* is not through.  run_all is cancelled, `results` is never bound, and the
\* warning that is logged names the timeout and the number of retailers.
DeadlineReached ==
    /\ mpc = "run_all"
    /\ \E done \in SUBSET (1..Len(gathered)) :
          /\ done # 1..Len(gathered)
          /\ finished' = done
    /\ exit_code' = 0
    /\ mpc' = "timed_out"
    /\ UNCHANGED <<gathered, out, reported>>

\* run_crawler.py:167-182.
CountAndExit ==
    /\ mpc = "count"
    /\ reported' = <<[success |-> success_count, errors |-> error_count]>>
    /\ exit_code' = IF error_count > 0 THEN 1 ELSE 0
    /\ mpc' = "exited"
    /\ UNCHANGED <<gathered, out, finished>>

MainNext ==
    \/ RunAllReturns /\ MainFrame
    \/ DeadlineReached /\ MainFrame
    \/ CountAndExit /\ MainFrame

SpecMain == MainInit /\ [][MainNext]_vars

\* A retailer failed: its worker raised, or one of its results has errors.
Failed(g) == g.exc \/ \E k \in 1..Len(g.results) : g.results[k]

\* C16: when the run ends before the deadline the exit code is 1 if a
\* retailer failed and 0 if none did; at the deadline it is 0.
C16_ExitCode ==
    /\ mpc = "exited" =>
          exit_code = (IF \E i \in 1..Len(gathered) : Failed(gathered[i])
                       THEN 1 ELSE 0)
    /\ mpc = "timed_out" => exit_code = 0

\* The results of the tasks that were through, as run_all lists them.
FinishedOut ==
    LET idx == SelectSeq(Indices(Len(gathered)), LAMBDA i : i \in finished)
    IN  GatherOut([k \in 1..Len(idx) |-> gathered[idx[k]]])

\* C35: when the deadline expires while run_all is still running, the job
\* stops, reports the partial results of the retailers that already
\* finished, and exits with code 0.
C35_DeadlinePartialResults ==
    (mpc = "timed_out" /\ finished # {}) =>
        /\ exit_code = 0
        /\ reported # <<>>
        /\ reported[1].success + reported[1].errors = Len(FinishedOut)

(***************************************************************************)
(* The dedup sets of concurrent workers.  run_all starts one crawl_retailer *)
(* call per retailer; each call makes its own seen_hashes and seen_names    *)
(* (core.py:41-42) and hands them to the adapters of its sources.  The      *)
(* calls interleave at every await, so the blobs of different retailers     *)
(* are deduplicated in any order.                                          *)
(***************************************************************************)
MaxWorkers == 2

MaxFetches == 2

Workers == 1..MaxWorkers

\* One set object for every call.
SharedSet(r) == 1

\* The set objects a crawl_retailer call reads and writes: the ones its own
\* activation made (core.py:41-42 are local assignments).
SeenSetOf(r) == r

\* generic.py:235: the name key carries the retailer id.
NormalizedNameOf(r, n) == <<r, Lower(n)>>

\* generic.py:229-238.
DedupOf(r, h, n) ==
    IF h \in hash_sets[SeenSetOf(r)] THEN "dup_hash"
    ELSE IF NormalizedNameOf(r, n) \in name_sets[SeenSetOf(r)] THEN "dup_name"
    ELSE "new"

DedupFrame == UNCHANGED <<retVars, runVars, dbVars, parseVars, archiveVars, discoverVars, mainVars, orderVars, selectVars, loginVars, datesVars, buttonsVars, metaVars, saveVars, woltVars, exitVars, syncVars, flatVars>>

DedupInit ==
    /\ RetIdle /\ RunIdle /\ DbIdle /\ ParseIdle /\ DiscoverIdle /\ MainIdle /\ OrderIdle /\ SelectIdle /\ LoginIdle /\ DatesIdle /\ ButtonsIdle /\ MetaIdle /\ SaveIdle /\ WoltIdle /\ ExitIdle /\ SyncIdle /\ FlatIdle
    /\ hash_sets = [r \in Workers |-> {}]
    /\ name_sets = [r \in Workers |-> {}]
    /\ cpc = [r \in Workers |-> "waiting"]
    /\ fetches = [r \in Workers |-> 0]
    /\ blobs_processed = [r \in Workers |-> {}]
    /\ blobs_skipped = [r \in Workers |-> {}]
    /\ permits = SemCapacity

\* core.py:162 and 41-42: the worker takes a permit, and crawl_retailer makes
\* its two empty sets.
EnterCrawl(r) ==
    /\ cpc[r] = "waiting"
    /\ permits > 0
    /\ permits' = permits - 1
    /\ hash_sets' = [hash_sets EXCEPT ![SeenSetOf(r)] = {}]
    /\ name_sets' = [name_sets EXCEPT ![SeenSetOf(r)] = {}]
    /\ cpc' = [cpc EXCEPT ![r] = "crawling"]
    /\ UNCHANGED <<fetches, blobs_processed, blobs_skipped>>

\* generic.py:222-245: one fetched blob goes through the dedup checks and is
\* either skipped or recorded in the sets and processed.
FetchAndDedup(r, b) ==
    /\ cpc[r] = "crawling"
    /\ fetches[r] < MaxFetches
    /\ fetches' = [fetches EXCEPT ![r] = @ + 1]
    /\ IF DedupOf(r, b[1], b[2]) = "new"
       THEN /\ hash_sets' = [hash_sets EXCEPT ![SeenSetOf(r)] = @ \cup {b[1]}]
            /\ name_sets' = [name_sets EXCEPT ![SeenSetOf(r)] = @ \cup {NormalizedNameOf(r, b[2])}]
            /\ blobs_processed' = [blobs_processed EXCEPT ![r] = @ \cup {b}]
            /\ UNCHANGED blobs_skipped
       ELSE /\ blobs_skipped' = [blobs_skipped EXCEPT ![r] = @ \cup {b}]
            /\ UNCHANGED <<hash_sets, name_sets, blobs_processed>>
    /\ UNCHANGED <<cpc, permits>>

\* core.py:139 and 162-171: crawl_retailer returns and the permit goes back.
LeaveCrawl(r) ==
    /\ cpc[r] = "crawling"
    /\ cpc' = [cpc EXCEPT ![r] = "done"]
    /\ permits' = permits + 1
    /\ UNCHANGED <<hash_sets, name_sets, fetches, blobs_processed, blobs_skipped>>

DedupNext ==
    \/ \E r \in Workers : EnterCrawl(r) /\ DedupFrame
    \/ \E r \in Workers : \E b \in Blobs : FetchAndDedup(r, b) /\ DedupFrame
    \/ \E r \in Workers : LeaveCrawl(r) /\ DedupFrame

SpecDedup == DedupInit /\ [][DedupNext]_vars

\* The blobs of the same hash or of the same name key as b.
SameAs(r, b) ==
    {c \in Blobs : c[1] = b[1] \/ NormalizedNameOf(r, c[2]) = NormalizedNameOf(r, b[2])}

\* C20: the sets of a worker hold what that worker itself processed and
\* nothing else, and a worker skips a blob as a duplicate only when it has
\* itself processed a blob of that hash or name, whatever the other workers
\* have processed.
C20_SetsNotShared ==
    \A r \in Workers : cpc[r] # "waiting" =>
        /\ hash_sets[r] = {b[1] : b \in blobs_processed[r]}
        /\ name_sets[r] = {NormalizedNameOf(r, b[2]) : b \in blobs_processed[r]}
        /\ \A b \in blobs_skipped[r] : SameAs(r, b) \cap blobs_processed[r] # {}

\* Two workers have processed the same blob, one of them after the other had
\* finished with it, and one has skipped a duplicate of its own.
C20_Witness ==
    \E a \in Workers : \E b \in Workers : \E x \in Blobs :
        /\ a # b
        /\ x \in blobs_processed[a] /\ x \in blobs_processed[b]
        /\ blobs_skipped[b] # {}
        /\ cpc[a] = "done" /\ cpc[b] = "done"

(***************************************************************************)
(* crawl_retailer: the order in which the sources are tried                 *)
(* (core.py:25-54 and 126-130).  A source is its position in the configured *)
(* list, whether its url is non-empty, and its priority: <<p>>, or <<>>     *)
(* when the key is missing.                                                *)
(***************************************************************************)
Priorities == {<<>>, <<-1>>, <<0>>, <<1>>}

ConfiguredSources == [url : BOOLEAN, priority : Priorities]

\* Every source counts as priority 0.
NoPriority(s) == 0

\* core.py:38: s.get("priority", 0).
PriorityKey(s) == IF s.priority = <<>> THEN 0 ELSE s.priority[1]

\* The positions of seq whose key is k, in their order in seq.
WithKey(seq, k) == SelectSeq(Indices(Len(seq)), LAMBDA i : PriorityKey(seq[i]) = k)

RECURSIVE SortDescending(_, _)
\* core.py:38: list.sort(key=..., reverse=True) is stable: the positions by
\* descending key, those of equal key in their original order.  k is the
\* highest key not yet placed.
SortDescending(seq, k) ==
    IF k < -1 THEN <<>>
    ELSE WithKey(seq, k) \o SortDescending(seq, k - 1)

\* core.py:26-38: the list the loop iterates, as configured positions; the
\* legacy single source is position 0.
SourcesToTry ==
    IF retailer_sources # <<>> THEN SortDescending(retailer_sources, 1)
    ELSE IF retailer_url THEN <<0>> ELSE <<>>

\* The source at a position; the legacy source has its url and no priority.
SourceAt(i) == IF i = 0 THEN [url |-> retailer_url, priority |-> <<>>] ELSE retailer_sources[i]

OrderFrame == UNCHANGED <<retVars, runVars, dbVars, parseVars, archiveVars, discoverVars, mainVars, dedupVars, selectVars, loginVars, datesVars, buttonsVars, metaVars, saveVars, woltVars, exitVars, syncVars, flatVars>>

OrderInit ==
    /\ RetIdle /\ RunIdle /\ DbIdle /\ ParseIdle /\ DiscoverIdle /\ MainIdle /\ DedupIdle /\ SelectIdle /\ LoginIdle /\ DatesIdle /\ ButtonsIdle /\ MetaIdle /\ SaveIdle /\ WoltIdle /\ ExitIdle /\ SyncIdle /\ FlatIdle
    /\ retailer_sources \in {<<>>} \cup SeqsUpTo(ConfiguredSources, MaxSources)
    /\ retailer_url \in BOOLEAN
    /\ ordered = <<>>
    /\ opc = "start"
    /\ oidx = 0
    /\ visited = <<>>

\* core.py:26-38: the sources are read and sorted.
SortSources ==
    /\ opc = "start"
    /\ SourcesToTry # <<>>
    /\ ordered' = SourcesToTry
    /\ opc' = "loop"
    /\ UNCHANGED <<retailer_sources, retailer_url, oidx, visited>>

\* core.py:33-35: no sources and no legacy url.
ReturnNoSources ==
    /\ opc = "start"
    /\ SourcesToTry = <<>>
    /\ opc' = "returned"
    /\ UNCHANGED <<retailer_sources, retailer_url, ordered, oidx, visited>>

\* core.py:52-54: a source with an empty url is passed over.
ContinueEmptyUrl ==
    /\ opc = "loop" /\ oidx < Len(ordered)
    /\ ~SourceAt(ordered[oidx + 1]).url
    /\ oidx' = oidx + 1
    /\ UNCHANGED <<retailer_sources, retailer_url, ordered, opc, visited>>

\* core.py:56-130: an adapter is run for the source; the loop breaks when the
\* source downloaded files and goes on otherwise.
RunAdapter(downloaded) ==
    /\ opc = "loop" /\ oidx < Len(ordered)
    /\ SourceAt(ordered[oidx + 1]).url
    /\ visited' = Append(visited, ordered[oidx + 1])
    /\ oidx' = oidx + 1
    /\ opc' = IF downloaded THEN "returned" ELSE "loop"
    /\ UNCHANGED <<retailer_sources, retailer_url, ordered>>

\* core.py:51 and 139: the loop is exhausted.
LoopExhausted ==
    /\ opc = "loop" /\ oidx = Len(ordered)
    /\ opc' = "returned"
    /\ UNCHANGED <<retailer_sources, retailer_url, ordered, oidx, visited>>

OrderNext ==
    \/ SortSources /\ OrderFrame
    \/ ReturnNoSources /\ OrderFrame
    \/ ContinueEmptyUrl /\ OrderFrame
    \/ \E downloaded \in BOOLEAN : RunAdapter(downloaded) /\ OrderFrame
    \/ LoopExhausted /\ OrderFrame

SpecOrder == OrderInit /\ [][OrderNext]_vars

\* The priority a configured source counts with: 0 when it has none.
CountsAs(i) == IF SourceAt(i).priority = <<>> THEN 0 ELSE SourceAt(i).priority[1]

\* C21: of two sources an adapter was run for, the one run first has the
\* higher priority, or the same priority and the earlier configured position
\* (a source without a priority counting as 0); no source with an empty url
\* has an adapter run for it.
C21_PriorityOrder ==
    /\ \A m, n \in 1..Len(visited) : m < n =>
          \/ CountsAs(visited[m]) > CountsAs(visited[n])
          \/ CountsAs(visited[m]) = CountsAs(visited[n]) /\ visited[m] < visited[n]
    /\ \A m \in 1..Len(visited) : SourceAt(visited[m]).url

\* A source of priority 1 configured after a source without a priority was
\* run before it.
C21_Witness ==
    /\ Len(retailer_sources) >= 2
    /\ retailer_sources[1].priority = <<>>
    /\ retailer_sources[2].priority = <<1>>
    /\ visited = <<2, 1>>
    /\ opc = "returned"

(***************************************************************************)
(* crawl_retailer: the choice of the adapter for one source                 *)
(* (core.py:56-116).  A host is the sequence of its fragments; a text is    *)
(* contained in a host when its fragments occur in it side by side.         *)
(***************************************************************************)
MaxFragments == 2

HostFragments == {"url.", "publishedprices", "PublishedPrices", ".co.il", "binaprojects", "shop"}

Hosts == {<<>>} \cup SeqsUpTo(HostFragments, MaxFragments)

\* The values of an "adapter" key: missing, empty, or one of the adapters.
AdapterTags == {Null, ""} \cup Adapters

\* constants.py:18.
PUBLISHED_HOST == <<"url.", "publishedprices", ".co.il">>

\* str.lower, fragment by fragment.
LowerHost(h) == [i \in 1..Len(h) |-> IF h[i] = "PublishedPrices" THEN "publishedprices" ELSE h[i]]

\* Python `needle in h` on strings.
In(needle, h) ==
    \E k \in 0..Len(h) : /\ k + Len(needle) <= Len(h)
                         /\ \A i \in 1..Len(needle) : h[k + i] = needle[i]

\* The retailer's key before the source's.
RetailerTagFirst(s, r) == Or(r, s)

\* core.py:57.
ExplicitTag(s, r) == Or(s, r)

\* core.py:59-67.
AdapterByHost(h) ==
    LET host == LowerHost(h) IN
    IF In(PUBLISHED_HOST, host) \/ In(<<"publishedprices">>, host) THEN "publishedprices"
    ELSE IF In(<<"binaprojects">>, host) THEN "bina"
    ELSE "generic"

\* core.py:70-116: the adapter function the if/elif chain calls.
AdapterCalled(t) ==
    IF t = "publishedprices" THEN "crawl_publishedprices"
    ELSE IF t = "bina" THEN "bina_adapter"
    ELSE IF t = "wolt_dateindex" THEN "wolt_dateindex_adapter"
    ELSE "generic_adapter"

SelectFrame == UNCHANGED <<retVars, runVars, dbVars, parseVars, archiveVars, discoverVars, mainVars, dedupVars, orderVars, loginVars, datesVars, buttonsVars, metaVars, saveVars, woltVars, exitVars, syncVars, flatVars>>

SelectInit ==
    /\ RetIdle /\ RunIdle /\ DbIdle /\ ParseIdle /\ DiscoverIdle /\ MainIdle /\ DedupIdle /\ OrderIdle /\ LoginIdle /\ DatesIdle /\ ButtonsIdle /\ MetaIdle /\ SaveIdle /\ WoltIdle /\ ExitIdle /\ SyncIdle /\ FlatIdle
    /\ source_adapter \in AdapterTags
    /\ retailer_adapter \in AdapterTags
    /\ source_host \in Hosts
    /\ adapter_type = Null
    /\ dispatched = <<>>

\* core.py:57-67.
DetermineAdapter ==
    /\ adapter_type = Null
    /\ adapter_type' = IF Truthy(ExplicitTag(source_adapter, retailer_adapter))
                       THEN ExplicitTag(source_adapter, retailer_adapter)
                       ELSE AdapterByHost(source_host)
    /\ UNCHANGED <<source_adapter, retailer_adapter, source_host, dispatched>>

\* core.py:70-116: the branch of the chosen adapter calls its function.
Dispatch ==
    /\ adapter_type # Null /\ dispatched = <<>>
    /\ dispatched' = <<AdapterCalled(adapter_type)>>
    /\ UNCHANGED <<source_adapter, retailer_adapter, source_host, adapter_type>>

\* core.py:73-105: the authenticated branch without credentials calls nothing.
DispatchWithoutCredentials ==
    /\ adapter_type = "publishedprices" /\ dispatched = <<>>
    /\ dispatched' = <<"none">>
    /\ UNCHANGED <<source_adapter, retailer_adapter, source_host, adapter_type>>

SelectNext ==
    \/ DetermineAdapter /\ SelectFrame
    \/ Dispatch /\ SelectFrame
    \/ DispatchWithoutCredentials /\ SelectFrame

SpecSelect == SelectInit /\ [][SelectNext]_vars

\* A tag is set when the key is there and not empty.
IsSet(t) == t # Null /\ t # ""

\* The host has the word, in any letter case.
HostHas(w) == \E i \in 1..Len(source_host) : LowerHost(<<source_host[i]>>) = <<w>>

\* The adapter the rule of the specification names for the source.
AdapterByRule ==
    IF IsSet(source_adapter) THEN source_adapter
    ELSE IF IsSet(retailer_adapter) THEN retailer_adapter
    ELSE IF HostHas("publishedprices") THEN "publishedprices"
    ELSE IF HostHas("binaprojects") THEN "bina"
    ELSE "generic"

\* C22: the adapter chosen for a source is the source's tag if set, else the
\* retailer's tag if set, else the one the host names (publishedprices, then
\* binaprojects, else the flat-link adapter); when an adapter function is
\* called it is the chosen adapter's, and it is the only one.
C22_AdapterSelection ==
    /\ adapter_type # Null => adapter_type = AdapterByRule
    /\ dispatched # <<>> =>
          /\ Len(dispatched) = 1
          /\ dispatched[1] \in {AdapterCalled(AdapterByRule), "none"}
          /\ dispatched[1] = "none" => AdapterByRule = "publishedprices"

\* The source has no tag, the retailer's tag is bina, and the host names
\* publishedprices: the Download()-button adapter was called.
C22_Witness ==
    /\ source_adapter = ""
    /\ retailer_adapter = "bina"
    /\ source_host = <<"url.", "publishedprices">>
    /\ dispatched = <<"bina_adapter">>

(***************************************************************************)
(* publishedprices_login (publishedprices.py:48-150): a loop of attempts,   *)
(* each one the navigation to the login page, the filling of the form, the  *)
(* submit and the wait for the file manager.  The page's behaviour is the   *)
(* input of every step.                                                     *)
(***************************************************************************)
MaxRetries == 3

\* publishedprices.py:48: the default of max_retries, which
\* crawl_publishedprices does not override (publishedprices.py:397).
DefaultMaxRetries == 2

\* The exception leaves the function after the last attempt.
Reraises(a, m) == IF a < m - 1 THEN "retry" ELSE "raise"

\* publishedprices.py:140-148: the handler of an attempt waits and lets the
\* loop go on, or after the last attempt returns False.
ExceptionHandler(a, m) == IF a < m - 1 THEN "retry" ELSE "return_false"

LoginFrame == UNCHANGED <<retVars, runVars, dbVars, parseVars, archiveVars, discoverVars, mainVars, dedupVars, orderVars, selectVars, datesVars, buttonsVars, metaVars, saveVars, woltVars, exitVars, syncVars, flatVars>>

LoginInit ==
    /\ RetIdle /\ RunIdle /\ DbIdle /\ ParseIdle /\ DiscoverIdle /\ MainIdle /\ DedupIdle /\ OrderIdle /\ SelectIdle /\ DatesIdle /\ ButtonsIdle /\ MetaIdle /\ SaveIdle /\ WoltIdle /\ ExitIdle /\ SyncIdle /\ FlatIdle
    /\ max_retries \in 0..MaxRetries
    /\ attempt = 0
    /\ tries = 0
    /\ lpc = "for"
    /\ waited = <<>>
    /\ password_filled = FALSE
    /\ login_result = "none"
    /\ login_raised = FALSE

\* What an exception inside the attempt leads to: the next round of the loop
\* after a wait of ms, False, or the exception leaving the function.
Except(ms) ==
    LET handled == ExceptionHandler(attempt, max_retries) IN
    /\ waited' = IF handled = "retry" THEN Append(waited, ms) ELSE waited
    /\ attempt' = IF handled = "retry" THEN attempt + 1 ELSE attempt
    /\ lpc' = IF handled = "retry" THEN "for" ELSE "returned"
    /\ login_result' = IF handled = "return_false" THEN "false" ELSE login_result
    /\ login_raised' = (handled = "raise")
    /\ UNCHANGED <<max_retries, tries, password_filled>>

\* publishedprices.py:55: the loop takes the next attempt.
BeginAttempt ==
    /\ lpc = "for" /\ attempt < max_retries
    /\ tries' = tries + 1
    /\ lpc' = "goto"
    /\ password_filled' = FALSE
    /\ UNCHANGED <<max_retries, attempt, waited, login_result, login_raised>>

\* publishedprices.py:55 and 150: the loop is exhausted.
ReturnFalseAfterLoop ==
    /\ lpc = "for" /\ attempt >= max_retries
    /\ login_result' = "false"
    /\ lpc' = "returned"
    /\ UNCHANGED <<max_retries, attempt, tries, waited, password_filled, login_raised>>

\* publishedprices.py:57-68: the navigation; a failure waits 3 s and takes
\* the next attempt, or is raised again on the last one and reaches the
\* handler of line 140.
GotoLogin(nav_ok) ==
    /\ lpc = "goto"
    /\ IF nav_ok
       THEN /\ lpc' = "username"
            /\ UNCHANGED <<max_retries, attempt, tries, waited, password_filled, login_result, login_raised>>
       ELSE IF attempt < max_retries - 1
            THEN /\ waited' = Append(waited, 3000)
                 /\ attempt' = attempt + 1
                 /\ lpc' = "for"
                 /\ UNCHANGED <<max_retries, tries, password_filled, login_result, login_raised>>
            ELSE Except(2000)

\* publishedprices.py:74-88.
FillUsername(found) ==
    /\ lpc = "username"
    /\ IF found
       THEN /\ lpc' = "password"
            /\ UNCHANGED <<max_retries, attempt, tries, waited, password_filled, login_result, login_raised>>
       ELSE Except(2000)

\* publishedprices.py:91-104: a missing password field is only logged.
FillPassword(found) ==
    /\ lpc = "password"
    /\ password_filled' = found
    /\ lpc' = "submit"
    /\ UNCHANGED <<max_retries, attempt, tries, waited, login_result, login_raised>>

\* publishedprices.py:107-126.
ClickSubmit(found) ==
    /\ lpc = "submit"
    /\ IF found
       THEN /\ lpc' = "wait_for_url"
            /\ UNCHANGED <<max_retries, attempt, tries, waited, password_filled, login_result, login_raised>>
       ELSE Except(2000)

\* publishedprices.py:129-133.
WaitForUrl(arrived) ==
    /\ lpc = "wait_for_url"
    /\ lpc' = IF arrived THEN "returned" ELSE "fallback"
    /\ login_result' = IF arrived THEN "true" ELSE login_result
    /\ UNCHANGED <<max_retries, attempt, tries, waited, password_filled, login_raised>>

\* publishedprices.py:134-140: the file page is opened directly.
FallbackToFilePage(loaded) ==
    /\ lpc = "fallback"
    /\ IF loaded
       THEN /\ lpc' = "returned"
            /\ login_result' = "true"
            /\ UNCHANGED <<max_retries, attempt, tries, waited, password_filled, login_raised>>
       ELSE Except(2000)

LoginNext ==
    \/ BeginAttempt /\ LoginFrame
    \/ ReturnFalseAfterLoop /\ LoginFrame
    \/ \E nav_ok \in BOOLEAN : GotoLogin(nav_ok) /\ LoginFrame
    \/ \E found \in BOOLEAN : FillUsername(found) /\ LoginFrame
    \/ \E found \in BOOLEAN : FillPassword(found) /\ LoginFrame
    \/ \E found \in BOOLEAN : ClickSubmit(found) /\ LoginFrame
    \/ \E arrived \in BOOLEAN : WaitForUrl(arrived) /\ LoginFrame
    \/ \E loaded \in BOOLEAN : FallbackToFilePage(loaded) /\ LoginFrame

SpecLogin == LoginInit /\ [][LoginNext]_vars

\* The call is one coroutine that the event loop keeps resuming: every
\* awaited page operation ends, with a result or with its timeout.
SpecLoginLive == SpecLogin /\ WF_vars(LoginNext)

\* What holds of the call at every moment: no more attempts than
\* max_retries (two by default), a wait only between two attempts, True only
\* from the attempt that succeeded, all before it having failed, False only
\* when every attempt was used, and no exception.
LoginContract ==
    /\ tries <= max_retries
    /\ max_retries = DefaultMaxRetries => tries <= 2
    /\ Len(waited) <= max_retries - 1 \/ waited = <<>>
    /\ login_result = "true" => tries >= 1 /\ Len(waited) = tries - 1 /\ lpc = "returned"
    /\ login_result = "false" => tries = max_retries /\ lpc = "returned"
    /\ lpc = "returned" => login_result \in {"true", "false"}
    /\ ~login_raised

DayMonthTexts == {"1", "01", "2", "12", "13", "31"}

YearTexts == {"2025", "2026"}

SlashDates == DayMonthTexts \X DayMonthTexts \X YearTexts

\* int(text).
IntOf(t) ==
    CASE t \in {"1", "01"} -> 1
      [] t = "2" -> 2
      [] t = "12" -> 12
      [] t = "13" -> 13
      [] t = "31" -> 31
      [] t = "2025" -> 2025
      [] t = "2026" -> 2026

\* strftime's %d and %m: two digits.
Pad2(n) ==
    CASE n = 1 -> "01"
      [] n = 2 -> "02"
      [] n = 12 -> "12"
      [] n = 13 -> "13"
      [] n = 31 -> "31"

\* strftime's %Y.
YearText(y) == IF y = 2025 THEN "2025" ELSE "2026"

DaysIn(y, m) ==
    IF m = 2 THEN 28
    ELSE IF m \in {4, 6, 9, 11} THEN 30 ELSE 31

\* datetime(y, m, d) raises ValueError for a month or a day out of range.
IsDate(y, m, d) == m \in 1..12 /\ d \in 1..DaysIn(y, m)

\* The local dates the clock can show.
Todays == {t \in {2025, 2026} \X {1, 2, 12} \X {1, 2, 12, 13, 31} : IsDate(t[1], t[2], t[3])}

\* publishedprices.py:228 and bina.py:83.
TodayStr(a, t) ==
    IF a = "publishedprices" THEN <<Pad2(t[2]), Pad2(t[3]), YearText(t[1])>>
    ELSE <<Pad2(t[3]), Pad2(t[2]), YearText(t[1])>>

\* publishedprices.py:320-343: the text equal to today's, else the parts as
\* month/day/year, and when that is no date, as day/month/year.
publishedprices_date_matches(d, t) ==
    LET y == IntOf(d[3])
        p0 == IntOf(d[1])
        p1 == IntOf(d[2])
    IN  IF d = TodayStr("publishedprices", t) THEN TRUE
        ELSE IF IsDate(y, p0, p1) THEN <<y, p0, p1>> = t
        ELSE IF IsDate(y, p1, p0) THEN <<y, p1, p0>> = t
        ELSE FALSE

\* bina.py:152-157: the text is compared with today's as strings.
bina_date_matches(d, t) == d = TodayStr("bina", t)

DatesFrame == UNCHANGED <<retVars, runVars, dbVars, parseVars, archiveVars, discoverVars, mainVars, dedupVars, orderVars, selectVars, loginVars, buttonsVars, metaVars, saveVars, woltVars, exitVars, syncVars, flatVars>>

DatesInit ==
    /\ RetIdle /\ RunIdle /\ DbIdle /\ ParseIdle /\ DiscoverIdle /\ MainIdle /\ DedupIdle /\ OrderIdle /\ SelectIdle /\ LoginIdle /\ ButtonsIdle /\ MetaIdle /\ SaveIdle /\ WoltIdle /\ ExitIdle /\ SyncIdle /\ FlatIdle
    /\ date_str \in SlashDates
    /\ local_now \in Todays
    /\ row_adapter \in {"publishedprices", "bina"}
    /\ row_kept = "none"

\* publishedprices.py:313-363 with filter_today.
PublishedFilterRow ==
    /\ row_adapter = "publishedprices" /\ row_kept = "none"
    /\ row_kept' = IF publishedprices_date_matches(date_str, local_now) THEN "kept" ELSE "skipped"
    /\ UNCHANGED <<date_str, local_now, row_adapter>>

\* bina.py:139-167 with filter_today.
BinaFilterRow ==
    /\ row_adapter = "bina" /\ row_kept = "none"
    /\ row_kept' = IF bina_date_matches(date_str, local_now) THEN "kept" ELSE "skipped"
    /\ UNCHANGED <<date_str, local_now, row_adapter>>

DatesNext ==
    \/ PublishedFilterRow /\ DatesFrame
    \/ BinaFilterRow /\ DatesFrame

SpecDates == DatesInit /\ [][DatesNext]_vars

\* C27: the authenticated adapter keeps a row dated a/b/yyyy if and only if
\* month a, day b of year yyyy is today.
C27_UsOrder ==
    (row_adapter = "publishedprices" /\ row_kept # "none") =>
        (row_kept = "kept" <=>
            <<IntOf(date_str[3]), IntOf(date_str[1]), IntOf(date_str[2])>> = local_now)

\* C28: the Download()-button adapter selects a row dated d/m/yyyy, with one
\* or two digits for d and for m, if and only if day d, month m of year yyyy
\* is today.
C28_DayMonthOrder ==
    (row_adapter = "bina" /\ row_kept # "none") =>
        (row_kept = "kept" <=>
            <<IntOf(date_str[3]), IntOf(date_str[2]), IntOf(date_str[1])>> = local_now)

(***************************************************************************)
(* The Download()-button adapter on one table row (bina.py:87-167 and       *)
(* 244-253).  The onclick attribute is the sequence of its tokens: the call *)
(* head, a quote, a file name, the closing parenthesis.                     *)
(***************************************************************************)
MaxTokens == 5

OnclickTokens == {"Download(", "'", "a.gz", "b.xml", ")"}

Onclicks == SeqsUpTo(OnclickTokens, MaxTokens)

IsQuote(t) == t = "'"

\* The last token of the run of tokens without a quote that begins at from.
RunEnd(s, from) ==
    LET stops == {k \in from..Len(s) : IsQuote(s[k])}
    IN  IF stops = {} THEN Len(s)
        ELSE (CHOOSE k \in stops : \A l \in stops : k <= l) - 1

\* bina.py:100: /Download\(['"]([^'"]+)\)/i tried at token i.  The group is
\* greedy over everything but quotes and gives back until a closing
\* parenthesis follows it; a quote right before the parenthesis is matched
\* by nothing in the pattern.  <<>> when there is no match at i.
MatchAt(s, i) ==
    IF i + 3 <= Len(s) /\ s[i] = "Download(" /\ IsQuote(s[i + 1])
    THEN LET e == RunEnd(s, i + 2)
             closes == {k \in (i + 3)..e : s[k] = ")"}
         IN  IF closes = {} THEN <<>>
             ELSE SubSeq(s, i + 2, (CHOOSE k \in closes : \A l \in closes : l <= k) - 1)
    ELSE <<>>

\* String.match: the group of the leftmost match, <<>> when there is none.
OnclickMatch(s) ==
    LET at == {i \in 1..Len(s) : MatchAt(s, i) # <<>>}
    IN  IF at = {} THEN <<>>
        ELSE MatchAt(s, CHOOSE i \in at : \A j \in at : i <= j)

\* bina.py:95: the row has a button whose onclick contains Download.
HasDownloadButton(s) == \E i \in 1..Len(s) : s[i] = "Download("

\* bina.py:104: filename.endsWith('.gz') || filename.endsWith('.zip').
EndsWithGzOrZip(name) == name # <<>> /\ name[Len(name)] = "a.gz"

\* bina.py:87-137: what the page-side evaluation pushes for the row.
ButtonData(s, date) ==
    IF HasDownloadButton(s) /\ EndsWithGzOrZip(OnclickMatch(s))
    THEN <<[filename |-> OnclickMatch(s), date |-> date]>>
    ELSE <<>>

\* bina.py:139-167.
ButtonsOfRow(s, date, filter) ==
    SelectSeq(ButtonData(s, date), LAMBDA b : filter => b.date = "today")

ButtonsFrame == UNCHANGED <<retVars, runVars, dbVars, parseVars, archiveVars, discoverVars, mainVars, dedupVars, orderVars, selectVars, loginVars, datesVars, metaVars, saveVars, woltVars, exitVars, syncVars, flatVars>>

ButtonsInit ==
    /\ RetIdle /\ RunIdle /\ DbIdle /\ ParseIdle /\ DiscoverIdle /\ MainIdle /\ DedupIdle /\ OrderIdle /\ SelectIdle /\ LoginIdle /\ DatesIdle /\ MetaIdle /\ SaveIdle /\ WoltIdle /\ ExitIdle /\ SyncIdle /\ FlatIdle
    /\ onclick \in Onclicks
    /\ button_date \in Dates
    /\ bpc = "buttons"
    /\ buttons_found = <<>>
    /\ collected_links = <<>>

\* bina_collect_download_buttons(page, frame, filter_today=False).
CollectDownloadButtons ==
    /\ bpc = "buttons"
    /\ buttons_found' = ButtonsOfRow(onclick, button_date, FALSE)
    /\ bpc' = "links"
    /\ UNCHANGED <<onclick, button_date, collected_links>>

\* bina.py:244-253: strategy 1 of bina_collect_links returns the pseudo-links
\* of today's buttons.
CollectPseudoLinks ==
    /\ bpc = "links"
    /\ ButtonsOfRow(onclick, button_date, TRUE) # <<>>
    /\ collected_links' = [k \in 1..Len(ButtonsOfRow(onclick, button_date, TRUE)) |->
                              <<"download_button:">> \o ButtonsOfRow(onclick, button_date, TRUE)[k].filename]
    /\ bpc' = "done"
    /\ UNCHANGED <<onclick, button_date, buttons_found>>

\* bina.py:255-326: with no button for today the later strategies run; they
\* return links of anchors or captured URLs, never a pseudo-link.
CollectByOtherStrategies ==
    /\ bpc = "links"
    /\ ButtonsOfRow(onclick, button_date, TRUE) = <<>>
    /\ collected_links' \in {<<>>, <<<<"https://host/", "a.gz">>>>}
    /\ bpc' = "done"
    /\ UNCHANGED <<onclick, button_date, buttons_found>>

ButtonsNext ==
    \/ CollectDownloadButtons /\ ButtonsFrame
    \/ CollectPseudoLinks /\ ButtonsFrame
    \/ CollectByOtherStrategies /\ ButtonsFrame

SpecButtons == ButtonsInit /\ [][ButtonsNext]_vars

\* The onclick is Download('<name>') with a name ending in .gz or .zip.
IsDownloadCall == onclick = <<"Download(", "'", "a.gz", "'", ")">>

\* C29: for a row whose button's onclick is Download('<name>') with <name>
\* ending in .gz or .zip, the collection without the date filter returns one
\* entry with filename <name>, and when the row is dated today
\* bina_collect_links returns download_button:<name>.
C29_ButtonEntry ==
    IsDownloadCall =>
        /\ bpc # "buttons" =>
              /\ Len(buttons_found) = 1
              /\ buttons_found[1].filename = <<"a.gz">>
        /\ (bpc = "done" /\ button_date = "today") =>
              collected_links = <<<<"download_button:", "a.gz">>>>

\* ---------------------------------------------------------------------------
\* bina_adapter and the pseudo-links (bina.py:589-652)
\* ---------------------------------------------------------------------------

\* The page entries behind the collected "download_button:" pseudo-links.
PseudoEntries == {links[k].entry : k \in {j \in 1..Len(links) : links[j].pseudo}}

\* The click-download path has run for the page.
ClickPathRan == bina_fallback_click_downloads(page_rows) \subseteq clicked

\* C30: bina_adapter never passes a link that starts with download_button:
\* to fetch_url; once pseudo-links are collected the click-download path is
\* run for them and the download loop goes over the remaining links only.
C30_PseudoLinksNotFetched ==
    on_page = "bina" =>
        /\ PseudoEntries \cap fetched = {}
        /\ link_idx <= Len(links) - Len(pseudo_links)
        /\ (dpc \in {"fetch", "done"} /\ pseudo_links # <<>>) =>
              ClickPathRan /\ clicked # {}

\* bina_adapter has returned for a page on which two pseudo-links were
\* collected: the buttons were clicked and nothing was requested by URL.
C30_Witness ==
    /\ on_page = "bina" /\ dpc = "done"
    /\ Len(pseudo_links) = 2
    /\ clicked = PseudoEntries
    /\ fetched = {}

(***************************************************************************)
(* parse_prices_xml (parsers.py:77-146): the store metadata of a price     *)
(* file.  Each field is looked up at the root level and in the first Store *)
(* element; an element's text is known by its body and by whether blanks   *)
(* surround it.                                                            *)
(***************************************************************************)
Fields == {"store_id", "name", "city", "address"}

\* An element: none, or one with its text.
NoElement == <<>>

Text(body, pad) == <<[body |-> body, pad |-> pad]>>

RootValue == [store_id |-> "005", name |-> "Root Branch", city |-> "Haifa", address |-> "1 Root St"]

StoreValue == [store_id |-> "006", name |-> "Store Branch", city |-> "Eilat", address |-> "2 Store St"]

\* The root-level elements: each field present with a value, or missing.
RootLevels ==
    {[f \in Fields |-> IF f \in S THEN Text(RootValue[f], FALSE) ELSE NoElement] :
        S \in SUBSET Fields}

\* The children of a Store element: each field missing, present with blank
\* text, or present with a value surrounded by blanks.
StoreElements ==
    {[f \in Fields |-> IF f \in S[1] THEN Text(StoreValue[f], TRUE)
                       ELSE IF f \in S[2] THEN Text("", TRUE)
                       ELSE NoElement] :
        S \in {T \in (SUBSET Fields) \X (SUBSET Fields) : T[1] \cap T[2] = {}}}

\* parsers.py:20-23: the store id of the filename, None without a match.
FileStoreIds == {Null, "004"}

\* What the text of an element is after strip().
Strip(t) == t[1].body

\* parsers.py:10-17: the stripped text of the element, None when the element
\* is missing or its text is empty or blank.
first_text(t) == IF t = NoElement THEN Null ELSE IF Strip(t) = "" THEN Null ELSE Strip(t)

\* The extracted value is dropped and the current value kept.
KeepCurrent(extracted, current) == current

\* parsers.py:95-111: `if extracted: store_metadata[field] = extracted`.
Override(extracted, current) == IF Truthy(extracted) THEN extracted ELSE current

\* parsers.py:119.
effective_store_id == Or(metadata.store_id, file_store_id)

MetaFrame == UNCHANGED <<retVars, runVars, dbVars, parseVars, archiveVars, discoverVars, mainVars, dedupVars, orderVars, selectVars, loginVars, datesVars, buttonsVars, saveVars, woltVars, exitVars, syncVars, flatVars>>

MetaInit ==
    /\ ButtonsIdle /\ DatesIdle /\ DbIdle /\ DedupIdle /\ DiscoverIdle /\ LoginIdle /\ MainIdle /\ OrderIdle /\ ParseIdle /\ RetIdle /\ RunIdle /\ SelectIdle /\ SaveIdle /\ WoltIdle /\ ExitIdle /\ SyncIdle /\ FlatIdle
    /\ file_store_id \in FileStoreIds
    /\ root_texts \in RootLevels
    /\ store_elem \in {NoElement} \cup {<<e>> : e \in StoreElements}
    /\ item_kinds \in {<<>>} \cup SeqsUpTo({"promotion", "item"}, MaxItems)
    /\ xpc = "root"
    /\ metadata = <<>>
    /\ price_rows = <<>>

\* parsers.py:77-88: the root-level values; the store id of the filename
\* goes before the root-level StoreId.
ExtractRootLevel ==
    /\ xpc = "root"
    /\ metadata' = [f \in Fields |->
                       IF f = "store_id"
                       THEN Or(file_store_id, first_text(root_texts[f]))
                       ELSE first_text(root_texts[f])]
    /\ xpc' = "store"
    /\ UNCHANGED <<file_store_id, root_texts, store_elem, item_kinds, price_rows>>

\* parsers.py:91-111: the document has a Store element.
OverrideFromStore ==
    /\ xpc = "store" /\ store_elem # NoElement
    /\ metadata' = [f \in Fields |->
                       Override(first_text(store_elem[1][f]), metadata[f])]
    /\ xpc' = "rows"
    /\ UNCHANGED <<file_store_id, root_texts, store_elem, item_kinds, price_rows>>

\* parsers.py:91-92: root.find(".//Store") is None.
NoStoreElement ==
    /\ xpc = "store" /\ store_elem = NoElement
    /\ xpc' = "rows"
    /\ UNCHANGED <<file_store_id, root_texts, store_elem, item_kinds, metadata, price_rows>>

\* parsers.py:119-224: the rows of the promotion loop and of the item loop
\* carry effective_store_id; the function returns.
AppendRows ==
    /\ xpc = "rows"
    /\ price_rows' = [i \in 1..Len(item_kinds) |->
                         [is_on_sale |-> item_kinds[i] = "promotion",
                          store_id |-> effective_store_id]]
    /\ xpc' = "returned"
    /\ UNCHANGED <<file_store_id, root_texts, store_elem, item_kinds, metadata>>

MetaNext ==
    \/ ExtractRootLevel /\ MetaFrame
    \/ OverrideFromStore /\ MetaFrame
    \/ NoStoreElement /\ MetaFrame
    \/ AppendRows /\ MetaFrame

SpecMeta == MetaInit /\ [][MetaNext]_vars

\* The field is found non-empty in the Store element.
InStoreElement(f) ==
    /\ store_elem # NoElement /\ store_elem[1][f] # NoElement
    /\ store_elem[1][f][1].body # ""

\* C32: each store field found non-empty in the Store element replaces the
\* root-level value, and a Store-element store id also replaces the store id
\* of the filename: every emitted row and the returned store metadata carry
\* the Store element's id.
C32_StoreElementWins ==
    xpc = "returned" =>
        /\ \A f \in Fields : InStoreElement(f) => metadata[f] = StoreValue[f]
        /\ InStoreElement("store_id") =>
              \A i \in 1..Len(price_rows) : price_rows[i].store_id = "006"

\* The filename says store 004, the root level has a StoreId and a name, and
\* the Store element says store 006 and has another name: both rows and the
\* metadata carry 006 and the Store element's name.
C32_Witness ==
    /\ xpc = "returned"
    /\ file_store_id = "004"
    /\ root_texts["store_id"] # NoElement /\ root_texts["name"] # NoElement
    /\ InStoreElement("store_id") /\ InStoreElement("name")
    /\ Len(price_rows) = 2
    /\ price_rows[1].store_id = "006" /\ price_rows[2].store_id = "006"
    /\ metadata["store_id"] = "006" /\ metadata["name"] = "Store Branch"

(***************************************************************************)
(* save_parsed_prices (db.py:170-224) under failing statements.  Every     *)
(* statement sent to the database succeeds or raises; upsert_store and     *)
(* upsert_product do not catch (db.py:81-132), and parse_from_blob catches *)
(* what leaves save_parsed_prices (parsers.py:247-248).                    *)
(***************************************************************************)
SaveFrame == UNCHANGED <<retVars, runVars, dbVars, parseVars, archiveVars, discoverVars, mainVars, dedupVars, orderVars, selectVars, loginVars, datesVars, buttonsVars, metaVars, woltVars, exitVars, syncVars, flatVars>>

SaveInit ==
    /\ ButtonsIdle /\ DatesIdle /\ DbIdle /\ DedupIdle /\ DiscoverIdle /\ LoginIdle /\ MainIdle /\ MetaIdle /\ OrderIdle /\ ParseIdle /\ RetIdle /\ RunIdle /\ SelectIdle /\ WoltIdle /\ ExitIdle /\ SyncIdle /\ FlatIdle
    /\ file_rows \in SeqsUpTo([price_ok : BOOLEAN], MaxRows + 1)
    /\ has_store \in BOOLEAN
    /\ row_at = 1
    /\ fpc = "price"
    /\ store_cached = FALSE
    /\ product_rows = {}
    /\ snapshot_rows = {}
    /\ failed_rows = {}

\* The loop goes to its next row.
NextRow == row_at' = row_at + 1 /\ fpc' = "price"

\* What an exception does where the statement stands: inside the try of
\* db.py:208-219 it is logged and the loop goes on; elsewhere it leaves the
\* function.
AfterFailure(in_try) == IF in_try THEN NextRow ELSE row_at' = row_at /\ fpc' = "raised"

\* db.py:171-173: float(row["price"]), `continue` when it fails.
ParsePrice ==
    /\ fpc = "price" /\ row_at <= Len(file_rows)
    /\ IF file_rows[row_at].price_ok
       THEN fpc' = "store" /\ row_at' = row_at
       ELSE NextRow
    /\ UNCHANGED <<file_rows, has_store, store_cached, product_rows, snapshot_rows, failed_rows>>

\* db.py:182-184: no store id, or the id is in store_cache.
StoreFromCache ==
    /\ fpc = "store" /\ (~has_store \/ store_cached)
    /\ fpc' = "product"
    /\ UNCHANGED <<file_rows, has_store, row_at, store_cached, product_rows, snapshot_rows, failed_rows>>

\* db.py:186-194: upsert_store sends its statement; outside any try.
UpsertStoreStatement(ok) ==
    /\ fpc = "store" /\ has_store /\ ~store_cached
    /\ IF ok
       THEN /\ store_cached' = TRUE
            /\ fpc' = "product" /\ row_at' = row_at
            /\ UNCHANGED failed_rows
       ELSE /\ failed_rows' = failed_rows \cup {row_at}
            /\ AfterFailure(FALSE)
            /\ UNCHANGED store_cached
    /\ UNCHANGED <<file_rows, has_store, product_rows, snapshot_rows>>

\* db.py:196-205: upsert_product sends its statement; outside any try.
UpsertProductStatement(ok) ==
    /\ fpc = "product"
    /\ IF ok
       THEN /\ product_rows' = product_rows \cup {row_at}
            /\ fpc' = "snapshot" /\ row_at' = row_at
            /\ UNCHANGED failed_rows
       ELSE /\ failed_rows' = failed_rows \cup {row_at}
            /\ AfterFailure(FALSE)
            /\ UNCHANGED product_rows
    /\ UNCHANGED <<file_rows, has_store, store_cached, snapshot_rows>>

\* db.py:207-221: create_price_snapshot inside try/except.
CreateSnapshotStatement(ok) ==
    /\ fpc = "snapshot"
    /\ IF ok
       THEN /\ snapshot_rows' = snapshot_rows \cup {row_at}
            /\ NextRow
            /\ UNCHANGED failed_rows
       ELSE /\ failed_rows' = failed_rows \cup {row_at}
            /\ AfterFailure(TRUE)
            /\ UNCHANGED snapshot_rows
    /\ UNCHANGED <<file_rows, has_store, store_cached, product_rows>>

\* db.py:223-224.
ReturnSavedCount ==
    /\ fpc = "price" /\ row_at > Len(file_rows)
    /\ fpc' = "returned"
    /\ UNCHANGED <<file_rows, has_store, row_at, store_cached, product_rows, snapshot_rows, failed_rows>>

\* parsers.py:247-248: the exception ends the call for this file and is
\* logged as a parse error.
LogParseError ==
    /\ fpc = "raised"
    /\ fpc' = "parse_error"
    /\ UNCHANGED <<file_rows, has_store, row_at, store_cached, product_rows, snapshot_rows, failed_rows>>

SaveNext ==
    \/ ParsePrice /\ SaveFrame
    \/ StoreFromCache /\ SaveFrame
    \/ \E ok \in BOOLEAN : UpsertStoreStatement(ok) /\ SaveFrame
    \/ \E ok \in BOOLEAN : UpsertProductStatement(ok) /\ SaveFrame
    \/ \E ok \in BOOLEAN : CreateSnapshotStatement(ok) /\ SaveFrame
    \/ ReturnSavedCount /\ SaveFrame
    \/ LogParseError /\ SaveFrame

SpecSave == SaveInit /\ [][SaveNext]_vars

\* The file is through: save_parsed_prices returned or its exception was
\* logged.
FileDone == fpc \in {"returned", "parse_error"}

\* C33: when a database statement fails for one row of a price file, only
\* that row is skipped: every later row of the file with a price, on which
\* no statement fails, has its product upserted and gets its snapshot.
C33_OnlyFailedRowSkipped ==
    FileDone =>
        \A i \in failed_rows : \A j \in (i + 1)..Len(file_rows) :
            (file_rows[j].price_ok /\ j \notin failed_rows) =>
                j \in product_rows /\ j \in snapshot_rows

(***************************************************************************)
(* wolt_dateindex_adapter (wolt_dateindex.py:85-131): the dates of the     *)
(* index page, newest first, and the first of the three newest whose page  *)
(* gives links.  A date is its day number: the order of YYYY-MM-DD texts   *)
(* as strings is the order of the days.                                    *)
(***************************************************************************)
MaxDates == 4

DateTries == 3

IndexDates == 1..MaxDates

\* The page of a date: whether the request succeeds, and the number of
\* href="...gz" links in it.
DatePages == [ok : BOOLEAN, gz : 0..MaxLinks]

Min(a, b) == IF a < b THEN a ELSE b

\* wolt_dateindex.py:35: sorted(set(matches), reverse=True).
RECURSIVE SortedNewestFirst(_)
SortedNewestFirst(S) ==
    IF S = {} THEN <<>>
    ELSE LET top == CHOOSE d \in S : \A e \in S : e <= d
         IN  <<top>> \o SortedNewestFirst(S \ {top})

\* Every discovered date.
EveryDate(ds) == ds

\* wolt_dateindex.py:110: dates[:3].
DatesToTry(ds) == SubSeq(ds, 1, Min(DateTries, Len(ds)))

\* wolt_dateindex.py:43-69: the number of links collected for a date, none
\* when the request fails.
collect_links_for_date_http(d) ==
    IF date_pages[d].ok THEN Min(date_pages[d].gz, max_files) ELSE 0

WoltFrame == UNCHANGED <<retVars, runVars, dbVars, parseVars, archiveVars, discoverVars, mainVars, dedupVars, orderVars, selectVars, loginVars, datesVars, buttonsVars, metaVars, saveVars, exitVars, syncVars, flatVars>>

WoltInit ==
    /\ ButtonsIdle /\ DatesIdle /\ DbIdle /\ DedupIdle /\ DiscoverIdle /\ LoginIdle /\ MainIdle /\ MetaIdle /\ OrderIdle /\ ParseIdle /\ RetIdle /\ RunIdle /\ SaveIdle /\ SelectIdle /\ ExitIdle /\ SyncIdle /\ FlatIdle
    /\ index_dates \in SUBSET IndexDates
    /\ date_pages \in [IndexDates -> DatePages]
    /\ max_files \in {1, MaxLinks}
    /\ kpc = "discover"
    /\ dates = <<>>
    /\ examined = <<>>
    /\ newest = 0
    /\ date_links = 0
    /\ fetch_count = 0
    /\ files_downloaded = 0
    /\ wolt_reasons = {}

\* wolt_dateindex.py:97-103: discover_dates_http; an empty list returns
\* with no_dates.
DiscoverDates ==
    /\ kpc = "discover"
    /\ dates' = SortedNewestFirst(index_dates)
    /\ IF index_dates = {}
       THEN wolt_reasons' = {"no_dates"} /\ kpc' = "returned"
       ELSE UNCHANGED wolt_reasons /\ kpc' = "dates"
    /\ UNCHANGED <<index_dates, date_pages, max_files, examined, newest, date_links, fetch_count, files_downloaded>>

\* wolt_dateindex.py:110-119: the page of the next date is requested; with
\* links the date is selected and the loop left.
TryDate ==
    /\ kpc = "dates" /\ Len(examined) < Len(DatesToTry(dates))
    /\ LET date_text == DatesToTry(dates)[Len(examined) + 1]
           found == collect_links_for_date_http(date_text)
       IN  /\ examined' = Append(examined, date_text)
           /\ date_links' = found
           /\ IF found > 0
              THEN newest' = date_text /\ kpc' = "fetch"
              ELSE UNCHANGED newest /\ kpc' = "dates"
    /\ UNCHANGED <<index_dates, date_pages, max_files, dates, fetch_count, files_downloaded, wolt_reasons>>

\* wolt_dateindex.py:121-124: the loop is through without a date.
ReturnNoFiles ==
    /\ kpc = "dates" /\ Len(examined) = Len(DatesToTry(dates))
    /\ wolt_reasons' = wolt_reasons \cup {"no_files"}
    /\ kpc' = "returned"
    /\ UNCHANGED <<index_dates, date_pages, max_files, dates, examined, newest, date_links, fetch_count, files_downloaded>>

\* wolt_dateindex.py:132-168: one link of the selected date is fetched and
\* is processed or not (duplicate, failed request).
FetchDateLink(parsed) ==
    /\ kpc = "fetch" /\ fetch_count < date_links
    /\ fetch_count' = fetch_count + 1
    /\ files_downloaded' = files_downloaded + (IF parsed THEN 1 ELSE 0)
    /\ UNCHANGED <<index_dates, date_pages, max_files, kpc, dates, examined, newest, date_links, wolt_reasons>>

\* wolt_dateindex.py:170-171.
ReturnDateResult ==
    /\ kpc = "fetch" /\ fetch_count = date_links
    /\ kpc' = "returned"
    /\ UNCHANGED <<index_dates, date_pages, max_files, dates, examined, newest, date_links, fetch_count, files_downloaded, wolt_reasons>>

WoltNext ==
    \/ DiscoverDates /\ WoltFrame
    \/ TryDate /\ WoltFrame
    \/ ReturnNoFiles /\ WoltFrame
    \/ \E parsed \in BOOLEAN : FetchDateLink(parsed) /\ WoltFrame
    \/ ReturnDateResult /\ WoltFrame

SpecWolt == WoltInit /\ [][WoltNext]_vars

\* The page of the date could be read and lists a .gz link.
ListsGz(d) == date_pages[d].ok /\ date_pages[d].gz > 0

\* The three newest of the discovered dates.
ThreeNewest ==
    {d \in index_dates : Cardinality({e \in index_dates : e > d}) < 3}

InSeqOf(seq) == {seq[i] : i \in 1..Len(seq)}

\* C36: the adapter downloads from the newest of the three newest discovered
\* dates whose page lists a .gz link; it never examines a fourth date; when
\* none of the three has links it returns no_files with no fetch and no
\* download.
C36_NewestDateWithFiles ==
    /\ InSeqOf(examined) \subseteq ThreeNewest
    /\ fetch_count > 0 =>
          /\ newest \in ThreeNewest /\ ListsGz(newest)
          /\ \A d \in ThreeNewest : ListsGz(d) => d <= newest
    /\ (kpc = "returned" /\ index_dates # {}) =>
          IF \E d \in ThreeNewest : ListsGz(d)
          THEN /\ newest = CHOOSE d \in ThreeNewest :
                              ListsGz(d) /\ \A e \in ThreeNewest : ListsGz(e) => e <= d
               /\ fetch_count = date_links /\ date_links > 0
               /\ "no_files" \notin wolt_reasons
          ELSE /\ wolt_reasons = {"no_files"}
               /\ fetch_count = 0 /\ files_downloaded = 0

\* Four dates were discovered; the pages of the two newest give nothing, the
\* third lists links and its files were fetched, and the fourth, which has
\* links too, was not examined.
C36_Witness ==
    /\ kpc = "returned"
    /\ index_dates = 1..4
    /\ ~ListsGz(4) /\ ~ListsGz(3) /\ ListsGz(2) /\ ListsGz(1)
    /\ examined = <<4, 3, 2>>
    /\ newest = 2
    /\ fetch_count = 2 /\ files_downloaded = 1

(***************************************************************************)
(* The exit of a worker, event by event (core.py:46-48, 132-137, 160-171). *)
(* A worker records the close of its context, the GC hints and the return  *)
(* of its permit in the order in which they happen.  A context that no     *)
(* close() call ended is ended when the exit of `async with                *)
(* async_playwright()` stops the driver.                                   *)
(***************************************************************************)
NewTask == [pc |-> "waiting", ctx |-> "none", exc |-> FALSE, events |-> <<>>]

\* The driver's stop leaves the context as it is.
KeepsContext(c) == c

\* core.py:46: stopping the driver ends a context that is still open.
DriverStopEnds(c) == IF c = "open" THEN "closed" ELSE c

At(w, pc) == task[w].pc = pc

\* The worker goes on at pc after an exception.
Raise(w, pc) == task' = [task EXCEPT ![w].pc = pc, ![w].exc = TRUE]

ExitFrame == UNCHANGED <<retVars, runVars, dbVars, parseVars, archiveVars, discoverVars, mainVars, dedupVars, orderVars, selectVars, loginVars, datesVars, buttonsVars, metaVars, saveVars, woltVars, syncVars, flatVars>>

ExitInit ==
    /\ ButtonsIdle /\ DatesIdle /\ DbIdle /\ DedupIdle /\ DiscoverIdle /\ LoginIdle /\ MainIdle /\ MetaIdle /\ OrderIdle /\ ParseIdle /\ RetIdle /\ RunIdle /\ SaveIdle /\ SelectIdle /\ WoltIdle /\ SyncIdle /\ FlatIdle
    /\ task = [w \in Workers |-> NewTask]
    /\ exit_sem = SemCapacity

\* core.py:162: `async with sem`.
AcquirePermit(w) ==
    /\ At(w, "waiting") /\ exit_sem > 0
    /\ exit_sem' = exit_sem - 1
    /\ task' = [task EXCEPT ![w].pc = "enter"]

\* core.py:26-35: `return []` before any browser is launched.
ReturnEmpty(w) ==
    /\ At(w, "enter")
    /\ task' = [task EXCEPT ![w].pc = "limited_finally"]
    /\ UNCHANGED exit_sem

\* core.py:47, playwright_helpers.py:12-18: the launch and the new context;
\* a failure leaves `async with async_playwright()`.
OpenContext(w, ok) ==
    /\ At(w, "enter")
    /\ IF ok THEN task' = [task EXCEPT ![w].pc = "page", ![w].ctx = "open"]
       ELSE Raise(w, "stop")
    /\ UNCHANGED exit_sem

\* core.py:48: ctx.new_page() stands before the try.
OpenPage(w, ok) ==
    /\ At(w, "page")
    /\ IF ok THEN task' = [task EXCEPT ![w].pc = "sources"]
       ELSE Raise(w, "stop")
    /\ UNCHANGED exit_sem

\* core.py:50-130: the source loop ends by itself or by an exception; the
\* finally block follows.
SourceLoop(w, ok) ==
    /\ At(w, "sources")
    /\ IF ok THEN task' = [task EXCEPT ![w].pc = "finally_ctx"]
       ELSE Raise(w, "finally_ctx")
    /\ UNCHANGED exit_sem

\* core.py:133: ctx.close().
FinallyCloseContext(w, ok) ==
    /\ At(w, "finally_ctx")
    /\ IF ok
       THEN task' = [task EXCEPT ![w].pc = "finally_browser",
                                 ![w].ctx = "closed",
                                 ![w].events = Append(@, "ctx_closed")]
       ELSE Raise(w, "stop")
    /\ UNCHANGED exit_sem

\* core.py:134: browser.close().
FinallyCloseBrowser(w, ok) ==
    /\ At(w, "finally_browser")
    /\ IF ok THEN task' = [task EXCEPT ![w].pc = "finally_gc"]
       ELSE Raise(w, "stop")
    /\ UNCHANGED exit_sem

\* core.py:136-137: del, gc.collect().
FinallyGcCollect(w) ==
    /\ At(w, "finally_gc")
    /\ task' = [task EXCEPT ![w].pc = "stop", ![w].events = Append(@, "gc")]
    /\ UNCHANGED exit_sem

\* core.py:46: the exit of `async with async_playwright()`.
ExitPlaywright(w) ==
    /\ At(w, "stop")
    /\ task' = [task EXCEPT
                  ![w].pc = "limited_finally",
                  ![w].ctx = DriverStopEnds(@),
                  ![w].events = IF DriverStopEnds(task[w].ctx) # task[w].ctx
                                THEN Append(@, "ctx_closed") ELSE @]
    /\ UNCHANGED exit_sem

\* core.py:168-171: the finally block of limited_crawl.
LimitedFinallyGc(w) ==
    /\ At(w, "limited_finally")
    /\ task' = [task EXCEPT ![w].pc = "exit_sem",
                            ![w].events = Append(@, "gc")]
    /\ UNCHANGED exit_sem

\* core.py:162: the exit of `async with sem`.
ReleasePermit(w) ==
    /\ At(w, "exit_sem")
    /\ exit_sem' = exit_sem + 1
    /\ task' = [task EXCEPT ![w].pc = "done",
                            ![w].events = Append(@, "permit")]

ExitNext ==
    \/ \E w \in Workers : AcquirePermit(w) /\ ExitFrame
    \/ \E w \in Workers : ReturnEmpty(w) /\ ExitFrame
    \/ \E w \in Workers : \E ok \in BOOLEAN : OpenContext(w, ok) /\ ExitFrame
    \/ \E w \in Workers : \E ok \in BOOLEAN : OpenPage(w, ok) /\ ExitFrame
    \/ \E w \in Workers : \E ok \in BOOLEAN : SourceLoop(w, ok) /\ ExitFrame
    \/ \E w \in Workers : \E ok \in BOOLEAN : FinallyCloseContext(w, ok) /\ ExitFrame
    \/ \E w \in Workers : \E ok \in BOOLEAN : FinallyCloseBrowser(w, ok) /\ ExitFrame
    \/ \E w \in Workers : FinallyGcCollect(w) /\ ExitFrame
    \/ \E w \in Workers : ExitPlaywright(w) /\ ExitFrame
    \/ \E w \in Workers : LimitedFinallyGc(w) /\ ExitFrame
    \/ \E w \in Workers : ReleasePermit(w) /\ ExitFrame

SpecExit == ExitInit /\ [][ExitNext]_vars

\* The positions of the event in the worker's record.
EventAt(w, e) == {i \in 1..Len(task[w].events) : task[w].events[i] = e}

C38_ClicksSelectedRow ==
    (on_page = "bina" /\ dpc \in {"fetch", "done"} /\ pseudo_links # <<>>) =>
        clicked = PseudoEntries

(***************************************************************************)
(* The retailer rows over one run: sync_retailers_from_json                *)
(* (run_crawler.py:24-52) mirrors the configuration into the table, and    *)
(* every file persisted afterwards upserts its retailer again              *)
(* (db.py:149, 158).                                                       *)
(***************************************************************************)

\* data/retailers.json: the retailers the run is configured with.
ConfigRetailers ==
    << [id |-> "shufersal", name |-> "Shufersal", enabled |-> TRUE,
        tenantKey |-> Absent, creds_key |-> Absent,
        sources |-> <<[creds_key |-> Absent]>>],
       [id |-> "victory", name |-> "Victory", enabled |-> TRUE,
        tenantKey |-> Absent, creds_key |-> Absent,
        sources |-> <<[creds_key |-> "RAMILEVI"]>>] >>

\* config.py:16-35.
requires_credentials(retailer) ==
    IF Truthy(retailer.tenantKey) \/ Truthy(retailer.creds_key)
       \/ \E k \in DOMAIN retailer.sources : Truthy(retailer.sources[k].creds_key)
    THEN "True" ELSE "False"

\* run_crawler.py:45.
SyncEligible(retailer) ==
    Truthy(retailer.id) /\ Truthy(retailer.name) /\ retailer.enabled

\* run_crawler.py:36-39: without a pool nothing is synced.
SyncWithoutPool ==
    /\ ~syncing.done /\ syncing.i = 1 /\ ~db_pool
    /\ syncing' = [syncing EXCEPT !.done = TRUE]
    /\ call' = NoCall
    /\ UNCHANGED <<db_pool, db_retailers, db_stores, db_products,
                   db_snapshots, budget, DbLocals>>

\* run_crawler.py:42-49, one pass of the loop; a statement that raises
\* ends the sync at run_crawler.py:52.
SyncRetailer(ok) ==
    /\ ~syncing.done /\ db_pool /\ syncing.i <= Len(ConfigRetailers)
    /\ LET retailer == ConfigRetailers[syncing.i]
       IN  /\ call' = [op |-> "retailer", slug |-> retailer.id]
           /\ IF ~SyncEligible(retailer)
              THEN /\ ok
                   /\ syncing' = [syncing EXCEPT !.i = @ + 1]
                   /\ UNCHANGED db_retailers
              ELSE IF ok
              THEN /\ db_retailers' =
                         RetailersAfterUpsert(retailer.id, retailer.name,
                                              requires_credentials(retailer))
                   /\ syncing' = [syncing EXCEPT !.i = @ + 1]
              ELSE /\ syncing' = [syncing EXCEPT !.done = TRUE]
                   /\ UNCHANGED db_retailers
    /\ UNCHANGED <<db_pool, db_stores, db_products, db_snapshots, budget,
                   DbLocals>>

\* run_crawler.py:51.
SyncReturns ==
    /\ ~syncing.done /\ db_pool /\ syncing.i > Len(ConfigRetailers)
    /\ syncing' = [syncing EXCEPT !.done = TRUE]
    /\ call' = NoCall
    /\ UNCHANGED <<db_pool, db_retailers, db_stores, db_products,
                   db_snapshots, budget, DbLocals>>

\* db.py:148-150, called with the rows of a stores file (parsers.py:239-240).
BeginSaveStores(w) ==
    /\ spc[w] = "idle" /\ budget > 0
    /\ \E ok \in BOOLEAN :
         /\ call' = NoCall
         /\ IF db_pool /\ ok
            THEN /\ db_retailers' = RetailersAfterUpsert(w, w, Null)
                 /\ db_retailer_id' =
                       [db_retailer_id EXCEPT ![w] = db_retailers'[w].id]
                 /\ todo' = [todo EXCEPT ![w] = TRUE]
                 /\ spc' = [spc EXCEPT ![w] = "stores"]
            ELSE UNCHANGED <<db_retailers, db_retailer_id, todo, spc>>
    /\ UNCHANGED <<db_pool, db_stores, db_products, db_snapshots, budget,
                   store_metadata, store_cache>>

\* db.py:151-153, one pass of the loop; upsert_store is awaited outside
\* any try.
SaveStoreRow(w) ==
    /\ spc[w] = "stores" /\ todo[w]
    /\ budget > 0 /\ budget' = budget - 1
    /\ call' = NoCall
    /\ \E external_id \in ExternalIds \cup {Null}, name \in NameArgs,
          city \in CityArgs, address \in AddressArgs, raises \in BOOLEAN :
         IF raises
         THEN /\ Truthy(external_id)
              /\ Return(w)
              /\ UNCHANGED db_stores
         ELSE /\ db_stores' =
                    IF Truthy(external_id)
                    THEN StoresAfterUpsert(db_retailer_id[w], external_id,
                                           name, city, address).table
                    ELSE db_stores
              /\ Continue(w, store_cache)
    /\ UNCHANGED <<db_pool, db_retailers, db_products, db_snapshots>>

\* db.py:154.
EndSaveStores(w) ==
    /\ spc[w] = "stores" /\ ~todo[w]
    /\ Return(w)
    /\ call' = NoCall
    /\ UNCHANGED <<db_pool, db_retailers, db_stores, db_products,
                   db_snapshots, budget>>

SyncFrame == UNCHANGED <<retVars, runVars, parseVars, archiveVars, discoverVars, mainVars, dedupVars, orderVars, selectVars, loginVars, datesVars, buttonsVars, metaVars, saveVars, woltVars, exitVars, flatVars>>

SyncInit ==
    /\ RetIdle /\ RunIdle /\ ParseIdle /\ DiscoverIdle /\ MainIdle /\ DedupIdle /\ OrderIdle /\ SelectIdle /\ LoginIdle /\ DatesIdle /\ ButtonsIdle /\ MetaIdle /\ SaveIdle /\ WoltIdle /\ ExitIdle /\ FlatIdle
    /\ db_pool \in BOOLEAN
    /\ db_retailers = EmptyTable
    /\ db_stores = EmptyTable
    /\ db_products = EmptyTable
    /\ db_snapshots = {}
    /\ spc = [w \in Slugs |-> "idle"]
    /\ db_retailer_id = [w \in Slugs |-> NoId]
    /\ store_metadata = [w \in Slugs |-> Null]
    /\ store_cache = [w \in Slugs |-> EmptyTable]
    /\ todo = [w \in Slugs |-> FALSE]
    /\ budget = MaxRows
    /\ call = NoCall
    /\ syncing = [i |-> 1, done |-> FALSE]

\* run_crawler.py:65, 129: the sync comes first; the files of the crawl
\* are persisted after it.
SyncNext ==
    \/ SyncWithoutPool /\ SyncFrame
    \/ \E ok \in BOOLEAN : SyncRetailer(ok) /\ SyncFrame
    \/ SyncReturns /\ SyncFrame
    \/ \E w \in Slugs :
          syncing.done /\ BeginSave(w) /\ UNCHANGED syncing /\ SyncFrame
    \/ \E w \in Slugs :
          syncing.done /\ SaveRow(w) /\ UNCHANGED syncing /\ SyncFrame
    \/ \E w \in Slugs :
          syncing.done /\ EndSave(w) /\ UNCHANGED syncing /\ SyncFrame
    \/ \E w \in Slugs :
          syncing.done /\ BeginSaveStores(w) /\ UNCHANGED syncing /\ SyncFrame
    \/ \E w \in Slugs :
          syncing.done /\ SaveStoreRow(w) /\ UNCHANGED syncing /\ SyncFrame
    \/ \E w \in Slugs :
          syncing.done /\ EndSaveStores(w) /\ UNCHANGED syncing /\ SyncFrame

SpecSync == SyncInit /\ [][SyncNext]_vars

\* The configuration entries the sync has written.
Synced ==
    {ConfigRetailers[k] : k \in {j \in 1..Len(ConfigRetailers) :
                                   j < syncing.i /\ SyncEligible(ConfigRetailers[j])}}

\* C39: after the retailers are synced from configuration and any number
\* of price or store files of a retailer are persisted in the same run,
\* the retailer's row still holds the display name of the configuration
\* and the needsCreds value the sync wrote.
C39_SyncedRowKept ==
    \A retailer \in Synced :
        /\ db_retailers[retailer.id].name = retailer.name
        /\ db_retailers[retailer.id].needCreds = requires_credentials(retailer)

(***************************************************************************)
(* The today-filter of the generic adapter (generic.py:20-99, 155-167),    *)
(* on hrefs and link texts spelled out character by character.             *)
(***************************************************************************)
DigitSeq == <<"0", "1", "2", "3", "4", "5", "6", "7", "8", "9">>

Digits == {DigitSeq[k] : k \in DOMAIN DigitSeq}

DigitValue(c) == (CHOOSE k \in DOMAIN DigitSeq : DigitSeq[k] = c) - 1

RECURSIVE Num(_)
Num(s) ==
    IF s = <<>> THEN 0
    ELSE 10 * Num(SubSeq(s, 1, Len(s) - 1)) + DigitValue(s[Len(s)])

RECURSIVE NumText(_, _)
NumText(n, width) ==
    IF width = 0 THEN <<>>
    ELSE NumText(n \div 10, width - 1) \o <<DigitSeq[(n % 10) + 1]>>

\* strftime("%Y%m%d") and strftime("%Y-%m-%d") of a date.
Compact(t) == NumText(t[1], 4) \o NumText(t[2], 2) \o NumText(t[3], 2)

Iso(t) == NumText(t[1], 4) \o <<"-">> \o NumText(t[2], 2) \o <<"-">> \o NumText(t[3], 2)

\* The local dates of the scan.
FlatTodays == {<<2026, 11, 3>>, <<2026, 11, 2>>}

\* What a file name is made of: a 13-digit chain id, a branch number, a
\* date as YYYYMMDD, a time of day.
ChainPart == <<"7", "2", "9", "0", "0", "2", "7", "6", "0", "0", "0", "0", "7", "-">>

BranchPart == <<"0", "0", "1", "-">>

ClockPart == <<"0", "3", "0", "0">>

NameParts == {ChainPart, BranchPart, ClockPart} \cup {Compact(t) : t \in FlatTodays}

GzSuffix == <<".", "g", "z">>

Hrefs ==
    {<<"P">> \o Flatten(ps) \o GzSuffix :
        ps \in SeqsUpTo(NameParts, MaxFragments) \cup {<<>>}}

LinkTexts == {<<>>} \cup {Iso(t) : t \in FlatTodays} \cup {Compact(t) : t \in FlatTodays}

\* generic.py:26-33: "d" stands for \d, any other element for itself.
date_patterns ==
    << <<"d", "d", "d", "d", "-", "d", "d", "-", "d", "d">>,
       <<"d", "d", "-", "d", "d", "-", "d", "d", "d", "d">>,
       <<"d", "d", "d", "d", "d", "d", "d", "d">>,
       <<"d", "d", "/", "d", "d", "/", "d", "d", "d", "d">>,
       <<"d", "d", "d", "d", "/", "d", "d", "/", "d", "d">>,
       <<"d", "d", ".", "d", "d", ".", "d", "d", "d", "d">> >>

MatchesAt(pattern, s, i) ==
    /\ i + Len(pattern) - 1 <= Len(s)
    /\ \A k \in DOMAIN pattern :
          IF pattern[k] = "d" THEN s[i + k - 1] \in Digits
          ELSE s[i + k - 1] = pattern[k]

\* re.search(pattern, s).group(1): the leftmost match, <<>> for None.
Search(pattern, s) ==
    LET starts == {i \in 1..Len(s) : MatchesAt(pattern, s, i)}
    IN  IF starts = {} THEN <<>>
        ELSE LET i == CHOOSE j \in starts : \A k \in starts : j <= k
             IN  <<SubSeq(s, i, i + Len(pattern) - 1)>>

\* str.split(sep) for a one-character separator.
RECURSIVE Split(_, _)
Split(s, sep) ==
    LET cuts == {i \in 1..Len(s) : s[i] = sep}
    IN  IF cuts = {} THEN <<s>>
        ELSE LET i == CHOOSE j \in cuts : \A k \in cuts : j <= k
             IN  <<SubSeq(s, 1, i - 1)>> \o Split(SubSeq(s, i + 1, Len(s)), sep)

Has(s, c) == \E i \in DOMAIN s : s[i] = c

Joined(a, b, c) == a \o <<"-">> \o b \o <<"-">> \o c

\* generic.py:41-60: the match as YYYY-MM-DD, <<>> when no branch returns.
NormalizeHref(m) ==
    IF Has(m, "-")
    THEN LET parts == Split(m, "-")
         IN  IF Len(parts[1]) = 4 THEN <<m>>
             ELSE IF Len(parts[3]) = 4
             THEN <<Joined(parts[3], parts[2], parts[1])>> ELSE <<>>
    ELSE IF Has(m, "/")
    THEN LET parts == Split(m, "/")
         IN  IF Len(parts[1]) = 4
             THEN <<Joined(parts[1], parts[2], parts[3])>>
             ELSE IF Len(parts[3]) = 4
             THEN <<Joined(parts[3], parts[2], parts[1])>> ELSE <<>>
    ELSE IF Has(m, ".")
    THEN LET parts == Split(m, ".")
         IN  IF Len(parts[3]) = 4
             THEN <<Joined(parts[3], parts[2], parts[1])>> ELSE <<>>
    ELSE IF Len(m) = 8
    THEN <<Joined(SubSeq(m, 1, 4), SubSeq(m, 5, 6), SubSeq(m, 7, 8))>>
    ELSE <<>>

\* generic.py:69-82: the link text has the first two branches only.
NormalizeText(m) ==
    IF Has(m, "-") \/ Has(m, "/") THEN NormalizeHref(m) ELSE <<>>

\* The first pattern, from the k-th on, whose match a branch returns.
RECURSIVE FirstDate(_, _, _)
FirstDate(s, k, in_href) ==
    IF k > Len(date_patterns) THEN <<>>
    ELSE LET found == Search(date_patterns[k], s)
             date == IF found = <<>> THEN <<>>
                     ELSE IF in_href THEN NormalizeHref(found[1])
                     ELSE NormalizeText(found[1])
         IN  IF date # <<>> THEN date ELSE FirstDate(s, k + 1, in_href)

\* generic.py:20-85: <<>> stands for None.
extract_date_from_link(href, link_text) ==
    LET from_href == FirstDate(href, 1, TRUE)
    IN  IF from_href # <<>> THEN from_href
        ELSE IF link_text # <<>> THEN FirstDate(link_text, 1, FALSE)
        ELSE <<>>

\* datetime.strptime(s, "%Y-%m-%d").date(): <<>> when it raises.
Strptime(s) ==
    LET parts == Split(s, "-")
        numeric(p) == p # <<>> /\ \A i \in DOMAIN p : p[i] \in Digits
    IN  IF /\ Len(parts) = 3
           /\ \A i \in 1..3 : numeric(parts[i])
           /\ Len(parts[1]) = 4 /\ Len(parts[2]) <= 2 /\ Len(parts[3]) <= 2
           /\ Num(parts[1]) >= 1
           /\ IsDate(Num(parts[1]), Num(parts[2]), Num(parts[3]))
        THEN <<Num(parts[1]), Num(parts[2]), Num(parts[3])>>
        ELSE <<>>

\* generic.py:88-99, for the date extract_date_from_link returned.
is_today(date, now) ==
    IF date = <<>> THEN FALSE
    ELSE Strptime(date[1]) # <<>> /\ Strptime(date[1]) = now

EndsWith(s, suffix) ==
    /\ Len(s) >= Len(suffix)
    /\ SubSeq(s, Len(s) - Len(suffix) + 1, Len(s)) = suffix

\* generic.py:142-166: whether the anchor's href joins hrefs.
KeepsLink(h, link_text, filter, now) ==
    /\ h # <<>>
    /\ EndsWith(h, GzSuffix)
    /\ filter => is_today(extract_date_from_link(h, link_text), now)

FlatFrame == UNCHANGED <<retVars, runVars, dbVars, parseVars, archiveVars, discoverVars, mainVars, dedupVars, orderVars, selectVars, loginVars, datesVars, buttonsVars, metaVars, saveVars, woltVars, exitVars, syncVars>>

FlatInit ==
    /\ RetIdle /\ RunIdle /\ DbIdle /\ ParseIdle /\ DiscoverIdle /\ MainIdle /\ DedupIdle /\ OrderIdle /\ SelectIdle /\ LoginIdle /\ DatesIdle /\ ButtonsIdle /\ MetaIdle /\ SaveIdle /\ WoltIdle /\ ExitIdle /\ SyncIdle
    /\ link_info \in [href : Hrefs, text : LinkTexts]
    /\ scan \in [today : FlatTodays, filter_today : BOOLEAN, pc : {"scan"}]
    /\ flat_hrefs = {}

\* generic.py:138-167, the pass of the loop for the page's anchor.
ScanAnchor ==
    /\ scan.pc = "scan"
    /\ flat_hrefs' =
          IF KeepsLink(link_info.href, link_info.text, scan.filter_today, scan.today)
          THEN flat_hrefs \cup {link_info.href} ELSE flat_hrefs
    /\ scan' = [scan EXCEPT !.pc = "scanned"]
    /\ UNCHANGED link_info

\* generic.py:172: return sorted(hrefs).
ReturnHrefs ==
    /\ scan.pc = "scanned"
    /\ scan' = [scan EXCEPT !.pc = "done"]
    /\ UNCHANGED <<link_info, flat_hrefs>>

FlatNext ==
    \/ ScanAnchor /\ FlatFrame
    \/ ReturnHrefs /\ FlatFrame

SpecFlat == FlatInit /\ [][FlatNext]_vars

\* s occurs in h.
Contains(h, s) == \E i \in 1..Len(h) : i + Len(s) - 1 <= Len(h) /\ SubSeq(h, i, i + Len(s) - 1) = s

\* C40: with filter_today on, a flat link whose URL contains the current
\* local date written as YYYYMMDD is kept by collect_links_on_page,
\* whatever other digit runs the URL contains.
C40_TodayInUrlKept ==
    (scan.pc = "done" /\ scan.filter_today
        /\ Contains(link_info.href, Compact(scan.today))) =>
        link_info.href \in flat_hrefs
====
